---- MODULE Spec2Model ----
(***************************************************************************)
(* Model of the ingestion-and-caching pipeline of the TMT research portal: *)
(*   - the multi-provider news aggregator                                  *)
(*       integrations/news_api.py   fetch_multi_provider_news              *)
(*   - the stock_prices cache and its readers                              *)
(*       integrations/volatility_service.py, components/                   *)
(*       volatility_screener.py, integrations/stock_prices.py              *)
(*   - the chunked refresh run                                             *)
(*       integrations/volatility_service.py   refresh_all_tickers          *)
(*   - the news table                                                      *)
(*       db/db_operations.py   add_news_item, called by sync_to_database   *)
(*   - browser sessions pressing Refresh and reading the cache             *)
(*       components/volatility_screener.py   render_volatility_screener    *)
(*   - one call of a provider client and its normalizer                    *)
(*       integrations/news_api.py, earnings_api.py, stock_prices.py        *)
(*   - the provider loop of the aggregator with the credentials            *)
(*       integrations/news_api.py   fetch_multi_provider_news              *)
(*   - the quote clients request by request                                *)
(*       integrations/stock_prices.py   get_stock_quote                    *)
(*   - the unified feed                                                    *)
(*       views/unified_news.py   deduplicate_news                          *)
(*   - add_news_item on concurrent connections                             *)
(*       db/db_operations.py   add_news_item                               *)
(*                                                                         *)
(* The specifications share the variables: SpecNews (aggregator),          *)
(* SpecDedup (its deduplication alone), SpecAsk (its provider loop),       *)
(* SpecCache (store_quotes and the cache readers), SpecRefresh (one        *)
(* refresh_all_tickers run), SpecRerun (a run over a filled cache),        *)
(* SpecLookup (quote clients), SpecDb (news table), SpecAdders (concurrent *)
(* add_news_item calls), SpecSessions (concurrent sessions), SpecClient    *)
(* (one provider client call) and SpecFeed (unified feed).  Each leaves    *)
(* the other parts' variables alone.                                       *)
(***************************************************************************)
EXTENDS Integers, Sequences, FiniteSets, TLC

VARIABLES
    \* ---- news aggregator (fetch_multi_provider_news) ----
    limit,          \* the limit argument
    pidx,           \* index of the provider the for-loop is at (1-based)
    provStatus,     \* per provider: "pending", "skipped", "failed", "fetched"
    all_news,       \* the concatenation of the providers' articles
    received,       \* history: per provider, the articles its fetch_news returned
    queried,        \* history: the providers whose fetch_news was called
    deduplicated,   \* the deduplicated list after the sort
    newsResult,     \* [status, items]: "running", then "returned" or "raised"
    \* ---- stock_prices table and clock ----
    stock_prices,   \* the table: a set of rows
    now,            \* the wall clock, in minutes
    lastWrite,      \* history: per ticker, the last quote committed and when
    lastCall,       \* the cache call the caller just made and what it returned
    \* ---- refresh_all_tickers run ----
    pc,             \* position of the run
    tickers,        \* the tickers argument
    chunk_size,     \* the chunk_size argument
    chunkStart,     \* the loop variable i (0-based offset of the chunk)
    pos,            \* offset inside the chunk of the next lookup
    quotes,         \* quotes collected by get_batch_quotes for the chunk
    fetchLog,       \* history: the input positions looked up, in order
    failedPos,      \* history: input positions whose lookup returned None
    chunkLog,       \* history: per processed chunk, its quotes and its store step
    sleeps,         \* history: the number of time.sleep(60) calls of the run
    \* ---- news table and sync_to_database ----
    news_table,     \* the news table: a set of rows
    next_id,        \* the next value of the SERIAL sequence of news.id
    syncPc,         \* "idle", or "loop" inside sync_to_database
    news_data,      \* the items of the news_data argument not yet handled
    count,          \* the local count of sync_to_database
    lastAdd,        \* history: the last add_news_item call and its outcome
    rowsBefore,     \* history: the number of rows of news when sync_to_database began
    \* ---- browser sessions of the volatility screener ----
    session,        \* per session: where its script is, its quotes, its open transaction
    lastRead,       \* history: the last cache read made beside the sessions' writes
    \* ---- one call of a provider client ----
    client,         \* [kind, provider]: which client is called
    response,       \* what the HTTP request of the call met
    raw_data,       \* the raw records of the payload handed to the normalizer
    normPos,        \* number of raw records the normalizer loop has handled
    normalized,     \* the normalized list built so far
    fetchResult,    \* "running", then "returned", "absent" or "raised"
    \* ---- the provider loop of fetch_multi_provider_news and the credentials ----
    providers,      \* the providers argument
    environ,        \* the providers whose key variable is set in os.environ
    askLimit,       \* the limit argument
    ppos,           \* position of the for-loop in providers (1-based)
    requests,       \* history: the fetch_news calls made: provider, limit, outcome
    askResult,      \* [status, empty]: "running", then "returned" or "raised"
    \* ---- the quote clients over one process run ----
    apiKeys,        \* per quote provider, its key in os.environ: missing, invalid, valid
    lookupNo,       \* number of get_stock_quote calls made
    httpLog,        \* history: the HTTP requests sent: provider, status
    lastQuote,      \* what the last get_stock_quote call returned
    \* ---- the unified feed (deduplicate_news) ----
    feedNews,       \* the news_items argument
    feedSocial,     \* the social_items argument
    unified,        \* the list deduplicate_news returned
    feedPc,         \* "idle", "call" or "returned"
    \* ---- concurrent add_news_item calls ----
    adder           \* per connection: where its add_news_item call is, its item, its row

newsVars  == <<limit, pidx, provStatus, all_news, received, queried,
               deduplicated, newsResult>>
cacheVars == <<stock_prices, now, lastWrite, lastCall>>
runVars   == <<pc, tickers, chunk_size, chunkStart, pos, quotes, fetchLog,
               failedPos, chunkLog, sleeps>>
dbVars    == <<news_table, next_id, syncPc, news_data, count, lastAdd, rowsBefore>>
sessVars  == <<session, lastRead>>
clientVars == <<client, response, raw_data, normPos, normalized, fetchResult>>
askVars   == <<providers, environ, askLimit, ppos, requests, askResult>>
lookupVars == <<apiKeys, lookupNo, httpLog, lastQuote>>
feedVars  == <<feedNews, feedSocial, unified, feedPc>>
adderVars == <<adder>>
vars      == <<newsVars, cacheVars, runVars, dbVars, sessVars, clientVars, askVars, lookupVars, feedVars, adderVars>>

\* what the actions of one part leave alone
OutsideNews        == <<cacheVars, runVars, dbVars, sessVars, clientVars, askVars, lookupVars, feedVars, adderVars>>
OutsideCache       == <<newsVars, runVars, dbVars, sessVars, clientVars, askVars, lookupVars, feedVars, adderVars>>
OutsideRun         == <<newsVars, cacheVars, dbVars, sessVars, clientVars, askVars, lookupVars, feedVars, adderVars>>
OutsideCacheAndRun == <<newsVars, dbVars, sessVars, clientVars, askVars, lookupVars, feedVars, adderVars>>
OutsideDb          == <<newsVars, cacheVars, runVars, sessVars, clientVars, askVars, lookupVars, feedVars, adderVars>>
OutsideSessions    == <<newsVars, runVars, dbVars, now, lastCall, clientVars, askVars, lookupVars, feedVars, adderVars>>
OutsideClient      == <<newsVars, cacheVars, runVars, dbVars, sessVars, askVars, lookupVars, feedVars, adderVars>>
OutsideAsk         == <<newsVars, cacheVars, runVars, dbVars, sessVars, clientVars, lookupVars, feedVars, adderVars>>
OutsideLookup      == <<newsVars, cacheVars, runVars, dbVars, sessVars, clientVars, askVars, feedVars, adderVars>>
OutsideFeed        == <<newsVars, cacheVars, runVars, dbVars, sessVars, clientVars, askVars, lookupVars, adderVars>>
OutsideAdders      == <<newsVars, cacheVars, runVars, sessVars, clientVars, askVars, lookupVars, feedVars, syncPc, news_data, count, lastAdd, rowsBefore>>
OutsideLookupStore == <<newsVars, runVars, dbVars, sessVars, clientVars, askVars, now, lastCall, feedVars, adderVars>>

Running(items)  == [status |-> "running",  items |-> items]
Returned(items) == [status |-> "returned", items |-> items]
Raised(items)   == [status |-> "raised",   items |-> items]

Min(a, b) == IF a < b THEN a ELSE b
Abs(x)    == IF x < 0 THEN -x ELSE x

(***************************************************************************)
(* Strings are sequences of one-character strings, so that str.lower() and *)
(* str.strip() are computed and not assumed.                               *)
(***************************************************************************)
LowerChar(c) ==
    CASE c = "U" -> "u"
      [] c = "H" -> "h"
      [] OTHER   -> c

lower(s) == [k \in DOMAIN s |-> LowerChar(s[k])]

IsSpace(c) == c = " "

RECURSIVE lstrip(_)
lstrip(s) ==
    IF s # <<>> /\ IsSpace(Head(s)) THEN lstrip(Tail(s)) ELSE s

RECURSIVE rstrip(_)
rstrip(s) ==
    IF s # <<>> /\ IsSpace(s[Len(s)]) THEN rstrip(SubSeq(s, 1, Len(s) - 1)) ELSE s

strip(s) == rstrip(lstrip(s))

(***************************************************************************)
(* Articles as _normalize_news_data produces them: url and headline are    *)
(* strings, date is a datetime: a wall-clock value and a tzinfo that is    *)
(* "none" (naive: Finnhub, Alpha Vantage) or "utc" (aware: Marketaux).     *)
(***************************************************************************)
Urls      == { <<>>, <<"u">>, <<"U", " ">> }
Headlines == { <<>>, <<"h">>, <<"H", " ">> }
Dates     == { [wall |-> 1, tz |-> "none"], [wall |-> 2, tz |-> "utc"] }
Articles  == [url : Urls, headline : Headlines, date : Dates]

Providers == <<"finnhub", "alpha_vantage", "marketaux">>

MaxArticles == 2
MaxLimit    == 2

RECURSIVE SeqsUpTo(_, _)
SeqsUpTo(S, n) ==
    IF n = 0 THEN { <<>> }
    ELSE LET shorter == SeqsUpTo(S, n - 1)
         IN  shorter \cup { Append(s, x) : s \in shorter, x \in S }

(***************************************************************************)
(* fetch_multi_provider_news: the deduplication loop, the sort and the cut.*)
(***************************************************************************)
\* the two "continue" tests of the loop; the url is compared as it came,
\* the headline after .lower().strip()
SkipArticleHeadlineBlind(article, seen_urls, seen_headlines) ==
    article.url # <<>> /\ article.url \in seen_urls

SkipArticle(article, seen_urls, seen_headlines) ==
    LET url      == article.url
        headline == strip(lower(article.headline))
    IN  \/ url # <<>> /\ url \in seen_urls
        \/ headline # <<>> /\ headline \in seen_headlines

\* article_date.replace(tzinfo=None): the wall-clock value is kept
NaiveDate(d) == IF d.tz # "none" THEN [d EXCEPT !.tz = "none"] ELSE d

RECURSIVE DedupLoop(_, _, _, _)
DedupLoop(news, seen_urls, seen_headlines, out) ==
    IF news = <<>> THEN out
    ELSE LET article == Head(news)
         IN  IF SkipArticle(article, seen_urls, seen_headlines)
             THEN DedupLoop(Tail(news), seen_urls, seen_headlines, out)
             ELSE DedupLoop(Tail(news),
                            seen_urls \cup { article.url },
                            seen_headlines \cup { strip(lower(article.headline)) },
                            Append(out, [article EXCEPT !.date = NaiveDate(@)]))

Deduplicate(news) == DedupLoop(news, {}, {}, <<>>)

\* list.sort(key=date, reverse=True): stable, newest first
RECURSIVE InsertByDateDesc(_, _)
InsertByDateDesc(sorted, x) ==
    IF sorted = <<>> THEN << x >>
    ELSE IF Head(sorted).date.wall >= x.date.wall
         THEN << Head(sorted) >> \o InsertByDateDesc(Tail(sorted), x)
         ELSE << x >> \o sorted

SortUnsorted(s) == s

RECURSIVE SortByDateDesc(_)
SortByDateDesc(s) ==
    IF s = <<>> THEN <<>>
    ELSE InsertByDateDesc(SortByDateDesc(SubSeq(s, 1, Len(s) - 1)), s[Len(s)])

\* comparing a naive with an aware datetime raises TypeError
MixedTz(s) == \E a, b \in DOMAIN s : s[a].date.tz # s[b].date.tz

\* deduplicated[:limit]
Truncate(s, n) == SubSeq(s, 1, Min(n, Len(s)))

NewsIdle ==
    /\ limit = 0
    /\ pidx = Len(Providers) + 1
    /\ provStatus = [p \in DOMAIN Providers |-> "pending"]
    /\ all_news = <<>>
    /\ received = [p \in DOMAIN Providers |-> <<>>]
    /\ queried = {}
    /\ deduplicated = <<>>
    /\ newsResult = Returned(<<>>)

NewsInit ==
    /\ limit \in 0..MaxLimit
    /\ pidx = 1
    /\ provStatus = [p \in DOMAIN Providers |-> "pending"]
    /\ all_news = <<>>
    /\ received = [p \in DOMAIN Providers |-> <<>>]
    /\ queried = {}
    /\ deduplicated = <<>>
    /\ newsResult = Running(<<>>)

Fetching == newsResult.status = "running" /\ pidx \in DOMAIN Providers

\* os.getenv(key) is empty: "continue"
SkipProvider ==
    /\ Fetching
    /\ provStatus' = [provStatus EXCEPT ![pidx] = "skipped"]
    /\ pidx' = pidx + 1
    /\ UNCHANGED <<limit, all_news, received, queried, deduplicated, newsResult>>
    /\ UNCHANGED OutsideNews

\* the try block around the whole function instead of inside the loop: the
\* exception of one provider ends the call
ProviderFailsAborts ==
    /\ Fetching
    /\ provStatus' = [provStatus EXCEPT ![pidx] = "failed"]
    /\ queried' = queried \cup { pidx }
    /\ pidx' = Len(Providers) + 1
    /\ newsResult' = Raised(<<>>)
    /\ UNCHANGED <<limit, all_news, received, deduplicated>>
    /\ UNCHANGED OutsideNews

\* integration.fetch_news raises: caught, "continue"
ProviderFails ==
    /\ Fetching
    /\ provStatus' = [provStatus EXCEPT ![pidx] = "failed"]
    /\ queried' = queried \cup { pidx }
    /\ pidx' = pidx + 1
    /\ UNCHANGED <<limit, all_news, received, deduplicated, newsResult>>
    /\ UNCHANGED OutsideNews

\* integration.fetch_news returns news_items: all_news.extend(news_items)
ProviderReturns ==
    /\ Fetching
    /\ \E news_items \in SeqsUpTo(Articles, MaxArticles - Len(all_news)) :
           /\ all_news' = all_news \o news_items
           /\ received' = [received EXCEPT ![pidx] = news_items]
    /\ provStatus' = [provStatus EXCEPT ![pidx] = "fetched"]
    /\ queried' = queried \cup { pidx }
    /\ pidx' = pidx + 1
    /\ UNCHANGED <<limit, deduplicated, newsResult>>
    /\ UNCHANGED OutsideNews

\* the rest of the function: deduplicate, sort, return deduplicated[:limit]
Aggregate ==
    /\ newsResult.status = "running"
    /\ pidx = Len(Providers) + 1
    /\ LET unique == Deduplicate(all_news)
       IN  IF MixedTz(unique)
           THEN /\ deduplicated' = unique
                /\ newsResult' = Raised(<<>>)
           ELSE /\ deduplicated' = SortByDateDesc(unique)
                /\ newsResult' = Returned(Truncate(SortByDateDesc(unique), limit))
    /\ UNCHANGED <<limit, pidx, provStatus, all_news, received, queried>>
    /\ UNCHANGED OutsideNews

NewsNext == SkipProvider \/ ProviderFails \/ ProviderReturns \/ Aggregate

(***************************************************************************)
(* The provider loop of fetch_multi_provider_news with the credentials and *)
(* the number of articles asked of each provider.                          *)
(***************************************************************************)
MaxAskLimit == 4

\* "limit=articles_per_provider + 10": extra articles for the deduplication
ExtraForDedup == 10

ProviderNames == { Providers[k] : k \in DOMAIN Providers }

\* the lists a caller can pass: no provider twice, the default among them
ProviderLists ==
    { s \in SeqsUpTo(ProviderNames, Len(Providers)) :
        \A a, b \in DOMAIN s : a # b => s[a] # s[b] }

\* limit // len(providers)
articles_per_provider == askLimit \div Len(providers)

AskIdle ==
    /\ providers = <<>>
    /\ environ = {}
    /\ askLimit = 0
    /\ ppos = 1
    /\ requests = <<>>
    /\ askResult = [status |-> "returned", empty |-> TRUE]

AskInit ==
    /\ providers \in ProviderLists
    /\ environ \in SUBSET ProviderNames
    /\ askLimit \in 0..MaxAskLimit
    /\ ppos = 1
    /\ requests = <<>>
    /\ askResult = [status |-> "running", empty |-> TRUE]

Asking == askResult.status = "running" /\ ppos \in DOMAIN providers

\* limit // len(providers) with an empty list: ZeroDivisionError
NoProviders ==
    /\ askResult.status = "running"
    /\ providers = <<>>
    /\ askResult' = [status |-> "raised", empty |-> TRUE]
    /\ UNCHANGED <<providers, environ, askLimit, ppos, requests>>
    /\ UNCHANGED OutsideAsk

\* os.getenv(key_map.get(provider, '')) is empty: warning, "continue"
AskSkips ==
    /\ Asking
    /\ providers[ppos] \notin environ
    /\ ppos' = ppos + 1
    /\ UNCHANGED <<providers, environ, askLimit, requests, askResult>>
    /\ UNCHANGED OutsideAsk

\* the share alone is asked for, without the extra articles
AskFetchesShareOnly ==
    /\ Asking
    /\ providers[ppos] \in environ
    /\ \E outcome \in { "items", "nothing", "raised" } :
           requests' = Append(requests,
                              [provider |-> providers[ppos],
                               limit    |-> articles_per_provider,
                               outcome  |-> outcome])
    /\ ppos' = ppos + 1
    /\ UNCHANGED <<providers, environ, askLimit, askResult>>
    /\ UNCHANGED OutsideAsk

\* the key is set: fetch_news(tickers, limit=articles_per_provider + 10, ...)
\* returns a list (all_news.extend) or raises (caught, "continue")
AskFetches ==
    /\ Asking
    /\ providers[ppos] \in environ
    /\ \E outcome \in { "items", "nothing", "raised" } :
           requests' = Append(requests,
                              [provider |-> providers[ppos],
                               limit    |-> articles_per_provider + ExtraForDedup,
                               outcome  |-> outcome])
    /\ ppos' = ppos + 1
    /\ UNCHANGED <<providers, environ, askLimit, askResult>>
    /\ UNCHANGED OutsideAsk

\* after the loop: deduplicate, sort, return deduplicated[:limit]; with
\* nothing collected the result is the empty list
AskEnds ==
    /\ askResult.status = "running"
    /\ providers # <<>>
    /\ ppos = Len(providers) + 1
    /\ askResult' = [status |-> "returned",
                     empty  |-> \A r \in DOMAIN requests :
                                    requests[r].outcome # "items"]
    /\ UNCHANGED <<providers, environ, askLimit, ppos, requests>>
    /\ UNCHANGED OutsideAsk

AskNext == NoProviders \/ AskSkips \/ AskFetches \/ AskEnds

(***************************************************************************)
(* The unified feed: deduplicate_news over the wire articles and the       *)
(* social posts.  A wire article is [url, headline], a social post         *)
(* [permalink, headline]; an item of the feed is [source_type, url,        *)
(* headline] with the strings as the input carried them.                   *)
(***************************************************************************)
MaxFeedItems == 3

WireItems   == [url : Urls, headline : Headlines]
SocialItems == [permalink : Urls, headline : Headlines]

\* "if url and url in seen_urls: continue / if headline in seen_headlines: continue"
SkipNews(url, headline, seen_urls, seen_headlines) ==
    \/ url # <<>> /\ url \in seen_urls
    \/ headline \in seen_headlines

\* the posts compared with the urls only
SkipSocialUrlOnly(permalink, headline, seen_urls, seen_headlines) ==
    permalink # <<>> /\ permalink \in seen_urls

\* "if permalink and permalink in seen_urls: continue /
\*  if headline and headline in seen_headlines: continue"
SkipSocial(permalink, headline, seen_urls, seen_headlines) ==
    \/ permalink # <<>> /\ permalink \in seen_urls
    \/ headline # <<>> /\ headline \in seen_headlines

\* the second loop, over social_items
RECURSIVE SocialLoop(_, _, _, _)
SocialLoop(items, seen_urls, seen_headlines, out) ==
    IF items = <<>> THEN out
    ELSE LET social    == Head(items)
             permalink == strip(lower(social.permalink))
             headline  == strip(lower(social.headline))
         IN  IF SkipSocial(permalink, headline, seen_urls, seen_headlines)
             THEN SocialLoop(Tail(items), seen_urls, seen_headlines, out)
             ELSE SocialLoop(Tail(items),
                             IF permalink # <<>> THEN seen_urls \cup { permalink }
                                                 ELSE seen_urls,
                             IF headline # <<>> THEN seen_headlines \cup { headline }
                                                ELSE seen_headlines,
                             Append(out, [source_type |-> "social_media",
                                          url         |-> social.permalink,
                                          headline    |-> social.headline]))

\* the first loop, over news_items, followed by the second
RECURSIVE NewsLoop(_, _, _, _, _)
NewsLoop(items, social_items, seen_urls, seen_headlines, out) ==
    IF items = <<>> THEN SocialLoop(social_items, seen_urls, seen_headlines, out)
    ELSE LET item     == Head(items)
             url      == strip(lower(item.url))
             headline == strip(lower(item.headline))
         IN  IF SkipNews(url, headline, seen_urls, seen_headlines)
             THEN NewsLoop(Tail(items), social_items, seen_urls, seen_headlines, out)
             ELSE NewsLoop(Tail(items), social_items,
                           IF url # <<>> THEN seen_urls \cup { url } ELSE seen_urls,
                           seen_headlines \cup { headline },
                           Append(out, [source_type |-> "news_api",
                                        url         |-> item.url,
                                        headline    |-> item.headline]))

deduplicate_news(items, social_items) == NewsLoop(items, social_items, {}, {}, <<>>)

FeedIdle ==
    /\ feedNews = <<>>
    /\ feedSocial = <<>>
    /\ unified = <<>>
    /\ feedPc = "idle"

FeedInit ==
    /\ feedNews \in SeqsUpTo(WireItems, MaxFeedItems)
    /\ feedSocial \in SeqsUpTo(SocialItems, MaxFeedItems - Len(feedNews))
    /\ unified = <<>>
    /\ feedPc = "call"

DeduplicateNews ==
    /\ feedPc = "call"
    /\ unified' = deduplicate_news(feedNews, feedSocial)
    /\ feedPc' = "returned"
    /\ UNCHANGED <<feedNews, feedSocial>>
    /\ UNCHANGED OutsideFeed

(***************************************************************************)
(* Quotes.  Money and percentages are integers in thousandths (3101 is     *)
(* 3.101), the resolution at which the DECIMAL(10, 2) columns round.       *)
(***************************************************************************)
TickerOrder == <<"AAA", "BBB", "CCC">>
Tickers     == { TickerOrder[k] : k \in DOMAIN TickerOrder }

\* a / b with Python's float division cut at the model's resolution
Quot(a, b) == IF a >= 0 THEN a \div b ELSE -((-a) \div b)

\* what the two HTTP endpoints can answer: ok = FALSE stands for a missing key,
\* a 429, an HTTP error, a timeout or an unparseable body
FinnhubResponses ==
    { [ok |-> FALSE, c |-> 0,    pc |-> 0],
      [ok |-> TRUE,  c |-> 0,    pc |-> 3000],
      [ok |-> TRUE,  c |-> 3101, pc |-> 3000],
      [ok |-> TRUE,  c |-> 2899, pc |-> 3000] }

AlphaResponses ==
    { [ok |-> FALSE, price |-> 0, change |-> 0, change_percent |-> 0,
       volume |-> 0, previous_close |-> 0],
      [ok |-> TRUE, price |-> 3000, change |-> 0, change_percent |-> 0,
       volume |-> 5, previous_close |-> 3000] }

\* Optional[Dict]: <<>> is None, <<q>> a quote
get_stock_quote_finnhub(ticker, resp) ==
    IF resp.ok /\ resp.c # 0
    THEN LET current  == resp.c
             previous == resp.pc
             change   == current - previous
         IN  << [ticker         |-> ticker,
                 price          |-> current,
                 change         |-> change,
                 change_percent |-> IF previous > 0
                                    THEN Quot(change * 100 * 1000, previous)
                                    ELSE 0,
                 volume         |-> 0,
                 previous_close |-> previous,
                 source         |-> "Finnhub"] >>
    ELSE <<>>

get_stock_quote_alphavantage(ticker, resp) ==
    IF resp.ok
    THEN << [ticker         |-> ticker,
             price          |-> resp.price,
             change         |-> resp.change,
             change_percent |-> resp.change_percent,
             volume         |-> resp.volume,
             previous_close |-> resp.previous_close,
             source         |-> "Alpha Vantage"] >>
    ELSE <<>>

\* preferred_source = "finnhub": Alpha Vantage is asked only when Finnhub
\* gave no quote
get_stock_quote(ticker, fresp, aresp) ==
    LET quote == get_stock_quote_finnhub(ticker, fresp)
    IN  IF quote # <<>> THEN quote
        ELSE get_stock_quote_alphavantage(ticker, aresp)

LookupResults(ticker) ==
    { get_stock_quote(ticker, f, a) : f \in FinnhubResponses, a \in AlphaResponses }

Quotes == UNION { { r[1] : r \in LookupResults(t) \ { <<>> } } : t \in Tickers }

(***************************************************************************)
(* The stock_prices table: a set of rows; ticker is the primary key.       *)
(***************************************************************************)
\* a value as a DECIMAL(10, 2) column keeps it: rounded to two decimals,
\* half away from zero
Decimal2(x) ==
    IF x >= 0 THEN ((x + 5) \div 10) * 10 ELSE -((((-x) + 5) \div 10) * 10)

\* the VALUES tuple of the INSERT as the columns store it
RowOf(quote, at) ==
    [ticker         |-> quote.ticker,
     price          |-> Decimal2(quote.price),
     change         |-> Decimal2(quote.change),
     change_percent |-> Decimal2(quote.change_percent),
     volume         |-> quote.volume,
     previous_close |-> Decimal2(quote.previous_close),
     source         |-> quote.source,
     updated_at     |-> at]

\* INSERT ... ON CONFLICT (ticker) DO NOTHING
UpsertKeepExisting(table, row) ==
    IF \E r \in table : r.ticker = row.ticker THEN table ELSE table \cup { row }

\* the table emptied before the INSERT
UpsertAfterDelete(table, row) == { row }

\* INSERT ... ON CONFLICT (ticker) DO UPDATE SET <every column> = EXCLUDED.<column>
Upsert(table, row) ==
    IF \E r \in table : r.ticker = row.ticker
    THEN { r \in table : r.ticker # row.ticker } \cup { row }
    ELSE table \cup { row }

\* the table replaced by the rows of the batch
UpsertAllReplacing(table, qs, at) == { RowOf(qs[k], at) : k \in DOMAIN qs }

\* the writes kept back instead of committed with the call
UpsertAllDeferred(table, qs, at) == table

\* the for-loop of store_quotes inside one transaction
RECURSIVE UpsertAll(_, _, _)
UpsertAll(table, qs, at) ==
    IF qs = <<>> THEN table
    ELSE UpsertAll(Upsert(table, RowOf(Head(qs), at)), Tail(qs), at)

\* history of committed writes: per ticker <<>> or <<[quote, at]>>
RECURSIVE RecordWrites(_, _, _)
RecordWrites(hist, qs, at) ==
    IF qs = <<>> THEN hist
    ELSE RecordWrites([hist EXCEPT ![Head(qs).ticker] =
                            << [quote |-> Head(qs), at |-> at] >>],
                      Tail(qs), at)

(***************************************************************************)
(* The quote clients over one process run, request by request: the keys,   *)
(* the HTTP requests sent, the quote produced and its row in the cache.    *)
(***************************************************************************)
MaxLookups == 2

KeyStates == { "missing", "invalid", "valid" }

\* prices with more than two decimals and a previous close of zero as well
FinnhubPayloads ==
    { r \in FinnhubResponses : r.ok }
        \cup { [ok |-> TRUE, c |-> 3004, pc |-> 3000],
               [ok |-> TRUE, c |-> 3000, pc |-> 0] }

AlphaPayloads ==
    { r \in AlphaResponses : r.ok }
        \cup { [ok |-> TRUE, price |-> 2996, change |-> -4, change_percent |-> -133,
                volume |-> 5, previous_close |-> 3000] }

NoFinnhubQuote == [ok |-> FALSE, c |-> 0, pc |-> 0]
NoAlphaQuote   == [ok |-> FALSE, price |-> 0, change |-> 0, change_percent |-> 0,
                   volume |-> 0, previous_close |-> 0]

\* "if not api_key: return None" sends nothing; otherwise requests.get is
\* called and a key the provider does not accept is answered with a refusal
Sent(provider, key, status) ==
    IF key = "missing" THEN <<>>
    ELSE << [provider |-> provider,
             status   |-> IF key = "invalid" THEN "unauthorized" ELSE status] >>

\* the payload the client reads: only a request with a valid key that was
\* answered with 200 carries one
Answer(key, status, payload, none) ==
    IF key = "valid" /\ status = "ok" THEN payload ELSE none

LookupIdle ==
    /\ apiKeys = [finnhub |-> "missing", alphavantage |-> "missing"]
    /\ lookupNo = 0
    /\ httpLog = <<>>
    /\ lastQuote = <<>>

LookupInit ==
    /\ apiKeys \in [finnhub : KeyStates, alphavantage : KeyStates]
    /\ lookupNo = 0
    /\ httpLog = <<>>
    /\ lastQuote = <<>>

\* get_stock_quote(ticker, preferred_source="finnhub") for the next ticker
LookupQuote ==
    /\ lookupNo < Min(MaxLookups, Len(TickerOrder))
    /\ \E fstatus, astatus \in { "ok", "rate_limit" },
          fpayload \in FinnhubPayloads, apayload \in AlphaPayloads :
          LET ticker == TickerOrder[lookupNo + 1]
              fresp  == Answer(apiKeys.finnhub, fstatus, fpayload, NoFinnhubQuote)
              aresp  == Answer(apiKeys.alphavantage, astatus, apayload, NoAlphaQuote)
              quote  == get_stock_quote_finnhub(ticker, fresp)
          IN  /\ httpLog' = httpLog
                    \o Sent("finnhub", apiKeys.finnhub, fstatus)
                    \o (IF quote # <<>> THEN <<>>
                        ELSE Sent("alphavantage", apiKeys.alphavantage, astatus))
              /\ lastQuote' = get_stock_quote(ticker, fresp, aresp)
    /\ lookupNo' = lookupNo + 1
    /\ UNCHANGED apiKeys
    /\ UNCHANGED OutsideLookup

\* store_quotes([quote]) with the quote just produced
StoreLookup ==
    /\ lastQuote # <<>>
    /\ stock_prices' = UpsertAll(stock_prices, lastQuote, now)
    /\ lastWrite' = RecordWrites(lastWrite, lastQuote, now)
    /\ UNCHANGED lookupVars
    /\ UNCHANGED OutsideLookupStore

LookupNext == LookupQuote \/ StoreLookup

(***************************************************************************)
(* Readers of the cache.                                                   *)
(***************************************************************************)
MaxTime    == 1
MaxAges    == { 1, 2 }
Thresholds == { 0, 2000, 3370 }

\* SELECT ... ORDER BY ticker, as a sequence
RECURSIVE SetToSeq(_)
SetToSeq(S) ==
    IF S = {} THEN <<>>
    ELSE LET r == CHOOSE x \in S : TRUE IN << r >> \o SetToSeq(S \ { r })

RECURSIVE OrderByTicker(_, _)
OrderByTicker(rows, k) ==
    IF k > Len(TickerOrder) THEN <<>>
    ELSE SetToSeq({ r \in rows : r.ticker = TickerOrder[k] })
            \o OrderByTicker(rows, k + 1)

\* WHERE updated_at > %s
Fresh(row, cutoff_time) == row.updated_at > cutoff_time

SelectFresh(table, cutoff_time) ==
    OrderByTicker({ r \in table : Fresh(r, cutoff_time) }, 1)

\* if change_pct >= threshold ... elif change_pct <= -threshold
IsGainer(change_pct, threshold) == change_pct >= threshold

IsLoserNoElif(change_pct, threshold) == change_pct <= -threshold

IsLoser(change_pct, threshold) ==
    ~(change_pct >= threshold) /\ change_pct <= -threshold

RECURSIVE SelectGainers(_, _)
SelectGainers(qs, threshold) ==
    IF qs = <<>> THEN <<>>
    ELSE (IF IsGainer(Head(qs).change_percent, threshold) THEN << Head(qs) >> ELSE <<>>)
            \o SelectGainers(Tail(qs), threshold)

RECURSIVE SelectLosers(_, _)
SelectLosers(qs, threshold) ==
    IF qs = <<>> THEN <<>>
    ELSE (IF IsLoser(Head(qs).change_percent, threshold) THEN << Head(qs) >> ELSE <<>>)
            \o SelectLosers(Tail(qs), threshold)

\* list.sort(key=change_percent), stable; reverse keeps the order of equals
RECURSIVE InsertByChange(_, _, _)
InsertByChange(sorted, x, reverse) ==
    IF sorted = <<>> THEN << x >>
    ELSE IF \/ reverse /\ Head(sorted).change_percent >= x.change_percent
            \/ ~reverse /\ Head(sorted).change_percent <= x.change_percent
         THEN << Head(sorted) >> \o InsertByChange(Tail(sorted), x, reverse)
         ELSE << x >> \o sorted

\* the lists left in the order of the SELECT
SortByChangeOmitted(s, reverse) == s

RECURSIVE SortByChange(_, _)
SortByChange(s, reverse) ==
    IF s = <<>> THEN <<>>
    ELSE InsertByChange(SortByChange(SubSeq(s, 1, Len(s) - 1), reverse),
                        s[Len(s)], reverse)

RECURSIVE MaxUpdatedAt(_)
MaxUpdatedAt(qs) ==
    IF qs = <<>> THEN <<>>
    ELSE LET rest == MaxUpdatedAt(Tail(qs))
         IN  IF rest = <<>> \/ Head(qs).updated_at > rest[1]
             THEN << Head(qs).updated_at >> ELSE rest

\* the cache_age string
CacheAge(latest_update, nowT) ==
    IF latest_update # <<>>
    THEN LET age_minutes == nowT - latest_update[1]
         IN  IF age_minutes < 60
             THEN [label |-> "min ago", hours |-> 0, minutes |-> age_minutes]
             ELSE [label |-> "h m ago", hours |-> age_minutes \div 60,
                   minutes |-> age_minutes % 60]
    ELSE [label |-> "No data", hours |-> 0, minutes |-> 0]

NoAge(label) == [label |-> label, hours |-> 0, minutes |-> 0]

\* connected = FALSE: _get_db_conn() returned None
get_volatile_stocks_from_db(table, nowT, threshold, max_age_minutes, connected) ==
    IF ~connected
    THEN [gainers |-> <<>>, losers |-> <<>>, total_checked |-> 0,
          volatile_count |-> 0, needs_refresh |-> FALSE,
          cache_age |-> NoAge("No DB configured"), latest_update |-> <<>>]
    ELSE LET cutoff_time   == nowT - max_age_minutes
             fresh         == SelectFresh(table, cutoff_time)
             latest_update == MaxUpdatedAt(fresh)
             gainers       == SortByChange(SelectGainers(fresh, threshold), TRUE)
             losers        == SortByChange(SelectLosers(fresh, threshold), FALSE)
         IN  [gainers |-> gainers, losers |-> losers,
              total_checked |-> Len(fresh),
              volatile_count |-> Len(gainers) + Len(losers),
              needs_refresh |-> FALSE,
              cache_age |-> CacheAge(latest_update, nowT),
              latest_update |-> latest_update]

\* results['total_checked'] == 0 -> the dict with "needs_refresh": True
NeedsRefreshNever(results) == FALSE

NeedsRefresh(results) == results.total_checked = 0

get_cached_volatility_data(table, nowT, threshold, cache_minutes, connected) ==
    LET results == get_volatile_stocks_from_db(table, nowT, threshold,
                                               cache_minutes, connected)
    IN  IF NeedsRefresh(results)
        THEN [gainers |-> <<>>, losers |-> <<>>, total_checked |-> 0,
              volatile_count |-> 0, needs_refresh |-> TRUE,
              cache_age |-> NoAge("absent"), latest_update |-> <<>>]
        ELSE results

\* get_volatile_stocks(tickers, threshold) on the quotes get_batch_quotes gave
get_volatile_stocks(batch, threshold) ==
    LET gainers == SortByChange(SelectGainers(batch, threshold), TRUE)
        losers  == SortByChange(SelectLosers(batch, threshold), FALSE)
    IN  [gainers |-> gainers, losers |-> losers,
         total_checked |-> Len(batch),
         volatile_count |-> Len(gainers) + Len(losers),
         needs_refresh |-> FALSE,
         cache_age |-> NoAge("absent"), latest_update |-> <<>>]

(***************************************************************************)
(* get_batch_quotes and the single-threaded caller of the cache API.       *)
(***************************************************************************)
MaxQuotes         == 2
MaxBatch          == 1
DefaultMaxTickers == 50

\* ticker lists as the callers build them from companies.ticker (UNIQUE)
TickerLists ==
    { ts \in SeqsUpTo(Tickers, Len(TickerOrder)) :
        \A a, b \in DOMAIN ts : a # b => ts[a] # ts[b] }

\* limited_tickers = tickers[:max_tickers]
LimitedTickers(ts, max_tickers) == SubSeq(ts, 1, Min(max_tickers, Len(ts)))

\* every list get_batch_quotes can return for a ticker list: per ticker, in
\* order, the quote of get_stock_quote or nothing
RECURSIVE BatchResults(_)
BatchResults(ts) ==
    IF ts = <<>> THEN { <<>> }
    ELSE { r \o rest : r \in LookupResults(Head(ts)), rest \in BatchResults(Tail(ts)) }

EmptyValue ==
    [gainers |-> <<>>, losers |-> <<>>, total_checked |-> 0, volatile_count |-> 0,
     needs_refresh |-> FALSE, cache_age |-> NoAge("absent"), latest_update |-> <<>>]

\* what a store_quotes call was given: how many quotes, for how many different
\* tickers, and how many of these tickers already had a row
StoreInfo(table, qs) ==
    LET given == { qs[k].ticker : k \in DOMAIN qs }
    IN  [quotes   |-> Len(qs),
         distinct |-> Cardinality(given),
         replaced |-> Cardinality({ t \in given : \E r \in table : r.ticker = t })]

NoInfo == [quotes |-> 0, distinct |-> 0, replaced |-> 0]

Call(op, status, threshold, max_age, at, value, info) ==
    [op |-> op, status |-> status, threshold |-> threshold, max_age |-> max_age,
     at |-> at, value |-> value, info |-> info]

NoCall == Call("none", "none", 0, 0, 0, EmptyValue, NoInfo)

CallerReady == lastCall = NoCall

\* the caller takes the returned value (or the exception) and goes on
CallReturns ==
    /\ lastCall # NoCall
    /\ lastCall' = NoCall
    /\ UNCHANGED <<stock_prices, now, lastWrite>>
    /\ UNCHANGED OutsideCache

Tick ==
    /\ CallerReady
    /\ now < MaxTime
    /\ now' = now + 1
    /\ UNCHANGED <<stock_prices, lastWrite, lastCall>>
    /\ UNCHANGED OutsideCache

\* store_quotes([]): "if not quotes: return"
StoreQuotesEmpty ==
    /\ CallerReady
    /\ lastCall' = Call("store_quotes", "nothing to store", 0, 0, now, EmptyValue, NoInfo)
    /\ UNCHANGED <<stock_prices, now, lastWrite>>
    /\ UNCHANGED OutsideCache

\* _get_db_conn() is None: "return"
StoreQuotesNoConnection ==
    /\ CallerReady
    /\ lastCall' = Call("store_quotes", "no connection", 0, 0, now, EmptyValue, NoInfo)
    /\ UNCHANGED <<stock_prices, now, lastWrite>>
    /\ UNCHANGED OutsideCache

\* cur.execute or conn.commit raises: nothing of the transaction is kept
StoreQuotesRaises ==
    /\ CallerReady
    /\ lastCall' = Call("store_quotes", "raised", 0, 0, now, EmptyValue, NoInfo)
    /\ UNCHANGED <<stock_prices, now, lastWrite>>
    /\ UNCHANGED OutsideCache

\* the loop of upserts and conn.commit()
StoreQuotesCommits ==
    /\ CallerReady
    /\ \E qs \in SeqsUpTo(Quotes, MaxQuotes) \ { <<>> } :
          /\ stock_prices' = UpsertAll(stock_prices, qs, now)
          /\ lastWrite' = RecordWrites(lastWrite, qs, now)
          /\ lastCall' = Call("store_quotes", "committed", 0, 0, now, EmptyValue,
                              StoreInfo(stock_prices, qs))
    /\ UNCHANGED now
    /\ UNCHANGED OutsideCache

ReadVolatileFromDb ==
    /\ CallerReady
    /\ \E threshold \in Thresholds, max_age \in MaxAges, connected \in BOOLEAN :
          lastCall' = Call("get_volatile_stocks_from_db", "returned",
                           threshold, max_age, now,
                           get_volatile_stocks_from_db(stock_prices, now, threshold,
                                                       max_age, connected),
                           NoInfo)
    /\ UNCHANGED <<stock_prices, now, lastWrite>>
    /\ UNCHANGED OutsideCache

ReadCachedVolatility ==
    /\ CallerReady
    /\ \E threshold \in Thresholds, max_age \in MaxAges, connected \in BOOLEAN :
          lastCall' = Call("get_cached_volatility_data", "returned",
                           threshold, max_age, now,
                           get_cached_volatility_data(stock_prices, now, threshold,
                                                      max_age, connected),
                           NoInfo)
    /\ UNCHANGED <<stock_prices, now, lastWrite>>
    /\ UNCHANGED OutsideCache

\* get_volatile_stocks(tickers, threshold): quotes = get_batch_quotes(tickers)
GetVolatileStocks ==
    /\ CallerReady
    /\ \E ts \in { l \in TickerLists : Len(l) <= MaxBatch }, threshold \in Thresholds :
          \E batch \in BatchResults(LimitedTickers(ts, DefaultMaxTickers)) :
              lastCall' = Call("get_volatile_stocks", "returned", threshold, 0, now,
                               get_volatile_stocks(batch, threshold), NoInfo)
    /\ UNCHANGED <<stock_prices, now, lastWrite>>
    /\ UNCHANGED OutsideCache

CacheInit ==
    /\ stock_prices = {}
    /\ now = 0
    /\ lastWrite = [t \in Tickers |-> <<>>]
    /\ lastCall = NoCall

CacheNext ==
    \/ CallReturns
    \/ Tick
    \/ StoreQuotesEmpty
    \/ StoreQuotesNoConnection
    \/ StoreQuotesRaises
    \/ StoreQuotesCommits
    \/ ReadVolatileFromDb
    \/ ReadCachedVolatility
    \/ GetVolatileStocks

(***************************************************************************)
(* refresh_all_tickers(tickers, chunk_size): one run, step by step.        *)
(* init_volatility_table() (CREATE TABLE IF NOT EXISTS) leaves the rows    *)
(* alone and is part of StartRefresh.                                      *)
(***************************************************************************)
MaxChunkSize == 2

\* total_chunks = (len(tickers) + chunk_size - 1) // chunk_size
TotalChunks(ts, cs) == (Len(ts) + cs - 1) \div cs

\* chunk = tickers[i:i + chunk_size]
Chunk(ts, i, cs) == SubSeq(ts, i + 1, Min(i + cs, Len(ts)))

\* chunk_num = (i // chunk_size) + 1
ChunkNum(i, cs) == (i \div cs) + 1

\* the tickers get_batch_quotes(chunk, max_tickers=chunk_size) walks through
CurrentBatch == LimitedTickers(Chunk(tickers, chunkStart, chunk_size), chunk_size)

\* "if quotes:" before store_quotes(quotes)
ShouldStoreAlways(qs) == TRUE

ShouldStore(qs) == qs # <<>>

ChunkEntry(outcome, store_calls) ==
    [start |-> chunkStart, quotes |-> quotes, at |-> now,
     outcome |-> outcome, store_calls |-> store_calls]

\* after the store step: sleep before the next chunk, or return
AfterChunk ==
    IF ChunkNum(chunkStart, chunk_size) < TotalChunks(tickers, chunk_size)
    THEN "sleep" ELSE "done"

StartRefresh ==
    /\ pc = "idle"
    /\ \E ts \in TickerLists, cs \in 1..MaxChunkSize :
          /\ tickers' = ts
          /\ chunk_size' = cs
          /\ pc' = IF Len(ts) = 0 THEN "done" ELSE "fetch"
    /\ chunkStart' = 0
    /\ pos' = 0
    /\ quotes' = <<>>
    /\ UNCHANGED <<fetchLog, failedPos, chunkLog, sleeps>>
    /\ UNCHANGED OutsideRun

\* one iteration of the loop of get_batch_quotes: get_stock_quote(ticker)
FetchTicker ==
    /\ pc = "fetch"
    /\ pos < Len(CurrentBatch)
    /\ \E fresp \in FinnhubResponses, aresp \in AlphaResponses :
          LET quote == get_stock_quote(CurrentBatch[pos + 1], fresp, aresp)
          IN  /\ quotes' = quotes \o quote
              /\ failedPos' = IF quote = <<>>
                              THEN failedPos \cup { chunkStart + pos + 1 }
                              ELSE failedPos
    /\ fetchLog' = Append(fetchLog, chunkStart + pos + 1)
    /\ pos' = pos + 1
    /\ UNCHANGED <<pc, tickers, chunk_size, chunkStart, chunkLog, sleeps>>
    /\ UNCHANGED OutsideRun

BatchReturned == pc = "fetch" /\ pos = Len(CurrentBatch)

\* "if quotes:" is false: store_quotes is not called
SkipEmptyChunk ==
    /\ BatchReturned
    /\ ~ShouldStore(quotes)
    /\ chunkLog' = Append(chunkLog, ChunkEntry("not stored", 0))
    /\ pc' = AfterChunk
    /\ UNCHANGED <<tickers, chunk_size, chunkStart, pos, quotes, fetchLog, failedPos, sleeps>>
    /\ UNCHANGED OutsideRun

\* store_quotes(quotes) commits (or returns at once on an empty list)
StoreChunkCommits ==
    /\ BatchReturned
    /\ ShouldStore(quotes)
    /\ stock_prices' = UpsertAll(stock_prices, quotes, now)
    /\ lastWrite' = RecordWrites(lastWrite, quotes, now)
    /\ chunkLog' = Append(chunkLog,
                          ChunkEntry(IF quotes = <<>> THEN "nothing to store"
                                     ELSE "committed", 1))
    /\ pc' = AfterChunk
    /\ UNCHANGED <<tickers, chunk_size, chunkStart, pos, quotes, fetchLog, failedPos, sleeps>>
    /\ UNCHANGED <<now, lastCall>>
    /\ UNCHANGED OutsideCacheAndRun

\* store_quotes(quotes) finds no connection and returns
StoreChunkNoConnection ==
    /\ BatchReturned
    /\ ShouldStore(quotes)
    /\ quotes # <<>>
    /\ chunkLog' = Append(chunkLog, ChunkEntry("no connection", 1))
    /\ pc' = AfterChunk
    /\ UNCHANGED <<tickers, chunk_size, chunkStart, pos, quotes, fetchLog, failedPos, sleeps>>
    /\ UNCHANGED OutsideRun

\* store_quotes(quotes) raises (cur.execute, conn.commit): nothing of the
\* transaction is kept and nothing in refresh_all_tickers catches it
StoreChunkRaises ==
    /\ BatchReturned
    /\ ShouldStore(quotes)
    /\ quotes # <<>>
    /\ chunkLog' = Append(chunkLog, ChunkEntry("raised", 1))
    /\ pc' = "aborted"
    /\ UNCHANGED <<tickers, chunk_size, chunkStart, pos, quotes, fetchLog, failedPos, sleeps>>
    /\ UNCHANGED OutsideRun

\* time.sleep(60), then the next chunk
SleepThenNextChunk ==
    /\ pc = "sleep"
    /\ now' = now + 1
    /\ sleeps' = sleeps + 1
    /\ chunkStart' = chunkStart + chunk_size
    /\ pos' = 0
    /\ quotes' = <<>>
    /\ pc' = "fetch"
    /\ UNCHANGED <<tickers, chunk_size, fetchLog, failedPos, chunkLog>>
    /\ UNCHANGED <<stock_prices, lastWrite, lastCall>>
    /\ UNCHANGED OutsideCacheAndRun

RefreshNext ==
    \/ StartRefresh
    \/ FetchTicker
    \/ SkipEmptyChunk
    \/ StoreChunkCommits
    \/ StoreChunkNoConnection
    \/ StoreChunkRaises
    \/ SleepThenNextChunk

(***************************************************************************)
(* The news table, add_news_item (db/db_operations.py) and                 *)
(* NewsAPIIntegration.sync_to_database, its only caller.  Calls follow one *)
(* another; a row is [id, url, headline, date].                            *)
(***************************************************************************)
MaxNewsRows  == 2
MaxSyncItems == 2

\* normalized items as sync_to_database receives them
NewsItems ==
    [url : Urls, headline : { <<"h">>, <<"H", " ">> },
     date : { [wall |-> 1, tz |-> "none"] }]

NoRow == [id |-> 0, url |-> <<>>, headline |-> <<>>, date |-> [wall |-> 0, tz |-> "none"]]

\* "if url:" and the SELECT id FROM news WHERE url = %s finding a row
UrlPresentNever(table, url) == FALSE

UrlPresent(table, url) == url # <<>> /\ \E r \in table : r.url = url

\* the VALUES of the INSERT with the id the sequence gives
NewsRow(id, item) ==
    [id |-> id, url |-> item.url, headline |-> item.headline, date |-> item.date]

AddCall(item, before, status, id, inserted) ==
    [item |-> item, before |-> before, status |-> status, id |-> id,
     inserted |-> inserted]

NoAdd == AddCall(NoRow, {}, "none", 0, FALSE)

DbInit ==
    /\ news_table = {}
    /\ next_id = 1
    /\ syncPc = "idle"
    /\ news_data = <<>>
    /\ count = 0
    /\ lastAdd = NoAdd
    /\ rowsBefore = 0

\* sync_to_database(news_data): count = 0, then the for-loop
SyncStart ==
    /\ syncPc = "idle"
    /\ \E items \in SeqsUpTo(NewsItems, MaxSyncItems) : news_data' = items
    /\ count' = 0
    /\ rowsBefore' = Cardinality(news_table)
    /\ syncPc' = "loop"
    /\ UNCHANGED <<news_table, next_id, lastAdd>>
    /\ UNCHANGED OutsideDb

\* add_news_item finds the url: "return existing[0]"; count += 1
AddNewsItemExisting ==
    /\ syncPc = "loop"
    /\ news_data # <<>>
    /\ UrlPresent(news_table, Head(news_data).url)
    /\ \E existing \in { r \in news_table : r.url = Head(news_data).url } :
          lastAdd' = AddCall(Head(news_data), news_table, "returned", existing.id, FALSE)
    /\ count' = count + 1
    /\ news_data' = Tail(news_data)
    /\ UNCHANGED <<news_table, next_id, syncPc>>
    /\ UNCHANGED rowsBefore
    /\ UNCHANGED OutsideDb

\* add_news_item inserts, commits and returns the new id; count += 1
AddNewsItemInserts ==
    /\ syncPc = "loop"
    /\ news_data # <<>>
    /\ ~UrlPresent(news_table, Head(news_data).url)
    /\ next_id <= MaxNewsRows
    /\ news_table' = news_table \cup { NewsRow(next_id, Head(news_data)) }
    /\ lastAdd' = AddCall(Head(news_data), news_table, "returned", next_id, TRUE)
    /\ next_id' = next_id + 1
    /\ count' = count + 1
    /\ news_data' = Tail(news_data)
    /\ UNCHANGED syncPc
    /\ UNCHANGED rowsBefore
    /\ UNCHANGED OutsideDb

\* add_news_item raises (no connection, a statement fails and is rolled
\* back): sync_to_database catches it and goes on without counting
AddNewsItemRaises ==
    /\ syncPc = "loop"
    /\ news_data # <<>>
    /\ lastAdd' = AddCall(Head(news_data), news_table, "raised", 0, FALSE)
    /\ news_data' = Tail(news_data)
    /\ UNCHANGED <<news_table, next_id, syncPc, count>>
    /\ UNCHANGED rowsBefore
    /\ UNCHANGED OutsideDb

\* "return count"
SyncReturns ==
    /\ syncPc = "loop"
    /\ news_data = <<>>
    /\ syncPc' = "idle"
    /\ UNCHANGED <<news_table, next_id, news_data, count, lastAdd>>
    /\ UNCHANGED rowsBefore
    /\ UNCHANGED OutsideDb

DbNext ==
    \/ SyncStart
    \/ AddNewsItemExisting
    \/ AddNewsItemInserts
    \/ AddNewsItemRaises
    \/ SyncReturns

(***************************************************************************)
(* add_news_item called at the same time on several connections (the       *)
(* Refresh News APIs button pressed in several sessions).  news_table      *)
(* holds the committed rows; the row a connection has inserted and not yet *)
(* committed is in its own record, invisible to the SELECT of the others.  *)
(* The news table has no UNIQUE constraint on url.                         *)
(***************************************************************************)
Adders == { "a1", "a2" }

AdderAt(at, item, row, id) == [pc |-> at, item |-> item, row |-> row, id |-> id]

AdderIdle == AdderAt("idle", NoRow, <<>>, 0)

AddersIdle == adder = [a \in Adders |-> AdderIdle]

AddersInit == DbInit /\ AddersIdle

\* add_news_item(...) is called: conn = get_db_connection()
AdderCalls(a) ==
    /\ adder[a].pc \in { "idle", "returned", "raised" }
    /\ next_id <= MaxNewsRows
    /\ \E item \in NewsItems :
          adder' = [adder EXCEPT ![a] = AdderAt("select", item, <<>>, 0)]
    /\ UNCHANGED <<news_table, next_id>>
    /\ UNCHANGED OutsideAdders

\* "if url:" SELECT id FROM news WHERE url = %s; "return existing[0]"
AdderFindsExisting(a) ==
    /\ adder[a].pc = "select"
    /\ UrlPresent(news_table, adder[a].item.url)
    /\ \E existing \in { r \in news_table : r.url = adder[a].item.url } :
          adder' = [adder EXCEPT ![a] =
                       AdderAt("returned", adder[a].item, <<>>, existing.id)]
    /\ UNCHANGED <<news_table, next_id>>
    /\ UNCHANGED OutsideAdders

\* no committed row has the url (or the url is empty): INSERT ... RETURNING id
AdderInserts(a) ==
    /\ adder[a].pc = "select"
    /\ ~UrlPresent(news_table, adder[a].item.url)
    /\ adder' = [adder EXCEPT ![a] =
                     AdderAt("inserted", adder[a].item,
                             << NewsRow(next_id, adder[a].item) >>, next_id)]
    /\ next_id' = next_id + 1
    /\ UNCHANGED news_table
    /\ UNCHANGED OutsideAdders

\* conn.commit(); return news_id
AdderCommits(a) ==
    /\ adder[a].pc = "inserted"
    /\ news_table' = news_table \cup { adder[a].row[1] }
    /\ adder' = [adder EXCEPT ![a] =
                     AdderAt("returned", adder[a].item, <<>>, adder[a].id)]
    /\ UNCHANGED next_id
    /\ UNCHANGED OutsideAdders

\* a statement or the commit raises: conn.rollback(); raise e
AdderRaises(a) ==
    /\ adder[a].pc \in { "select", "inserted" }
    /\ adder' = [adder EXCEPT ![a] = AdderAt("raised", adder[a].item, <<>>, 0)]
    /\ UNCHANGED <<news_table, next_id>>
    /\ UNCHANGED OutsideAdders

AddersNext ==
    \/ \E a \in Adders : AdderCalls(a)
    \/ \E a \in Adders : AdderFindsExisting(a)
    \/ \E a \in Adders : AdderInserts(a)
    \/ \E a \in Adders : AdderCommits(a)
    \/ \E a \in Adders : AdderRaises(a)

(***************************************************************************)
(* The Refresh button of render_volatility_screener, pressed in several    *)
(* browser sessions (each session runs the script in a thread of its own), *)
(* and cache reads made meanwhile.  refresh_all_tickers(tickers,           *)
(* chunk_size=58) over the company list is one chunk here.  The database   *)
(* is PostgreSQL at its default isolation level: a transaction's upserts   *)
(* are invisible to others until conn.commit(), an upsert waits for the    *)
(* row lock another open transaction holds, a SELECT reads one snapshot of *)
(* the committed rows.                                                     *)
(***************************************************************************)
Sessions == { "s1", "s2" }

\* tickers = [c['ticker'] for c in companies if c.get('ticker')]
CompanyTickers == <<"AAA", "BBB">>

\* the quotes get_batch_quotes can return for the company list, Finnhub
\* answering
SessionBatches ==
    { b \in BatchResults(CompanyTickers) :
        \A k \in DOMAIN b : b[k].source = "Finnhub" }

SessionAt(at, qs, pending) == [pc |-> at, quotes |-> qs, pending |-> pending]

SessionIdle == SessionAt("idle", <<>>, <<>>)

\* the tickers whose row the open transaction of session o has written
LockedBy(o) == { session[o].pending[k].ticker : k \in DOMAIN session[o].pending }

\* the tickers whose row an open transaction of another session has locked
LockedByOthers(s) == UNION { LockedBy(o) : o \in Sessions \ { s } }

RECURSIVE UpsertRows(_, _)
UpsertRows(table, rows) ==
    IF rows = <<>> THEN table
    ELSE UpsertRows(Upsert(table, Head(rows)), Tail(rows))

\* the rows a SELECT sees: the committed ones
VisibleDirty(committed, uncommitted) == UpsertRows(committed, uncommitted)

Visible(committed, uncommitted) == committed

\* every row written and not yet committed, of all sessions
RECURSIVE Uncommitted(_)
Uncommitted(ss) ==
    IF ss = {} THEN <<>>
    ELSE LET o == CHOOSE x \in ss : TRUE
         IN  session[o].pending \o Uncommitted(ss \ { o })

\* get_cached_quotes(max_age_minutes): the fresh rows, ordered by ticker
get_cached_quotes(table, nowT, max_age_minutes, connected) ==
    IF ~connected THEN <<>>
    ELSE SelectFresh(table, nowT - max_age_minutes)

ReadOf(op, rows) ==
    [op |-> op, rows |-> rows, committed |-> stock_prices,
     in_flight |-> UNION { LockedBy(o) : o \in Sessions }]

NoRead == [op |-> "none", rows |-> <<>>, committed |-> {}, in_flight |-> {}]

SessInit ==
    /\ session = [s \in Sessions |-> SessionIdle]
    /\ lastRead = NoRead

\* "if refresh:" -- the button was pressed in session s; nothing looks at
\* what other sessions are doing
ClickRefresh(s) ==
    /\ session[s].pc = "idle"
    /\ session' = [session EXCEPT ![s] = SessionAt("fetching", <<>>, <<>>)]
    /\ UNCHANGED <<stock_prices, lastWrite, lastRead>>
    /\ UNCHANGED OutsideSessions

\* quotes = get_batch_quotes(chunk, ...); "if quotes: store_quotes(quotes)"
BatchFetched(s) ==
    /\ session[s].pc = "fetching"
    /\ \E batch \in SessionBatches :
          session' = [session EXCEPT ![s] =
                         IF ShouldStore(batch)
                         THEN SessionAt("storing", batch, <<>>)
                         ELSE SessionIdle]
    /\ UNCHANGED <<stock_prices, lastWrite, lastRead>>
    /\ UNCHANGED OutsideSessions

\* one cur.execute of the loop of store_quotes, inside the open transaction
ExecuteUpsert(s) ==
    /\ session[s].pc = "storing"
    /\ Len(session[s].pending) < Len(session[s].quotes)
    /\ LET quote == session[s].quotes[Len(session[s].pending) + 1]
       IN  /\ quote.ticker \notin LockedByOthers(s)
           /\ session' = [session EXCEPT ![s].pending = Append(@, RowOf(quote, now))]
    /\ UNCHANGED <<stock_prices, lastWrite, lastRead>>
    /\ UNCHANGED OutsideSessions

\* conn.commit(): the run returns, st.rerun()
CommitStore(s) ==
    /\ session[s].pc = "storing"
    /\ Len(session[s].pending) = Len(session[s].quotes)
    /\ stock_prices' = UpsertRows(stock_prices, session[s].pending)
    /\ lastWrite' = RecordWrites(lastWrite, session[s].quotes, now)
    /\ session' = [session EXCEPT ![s] = SessionIdle]
    /\ UNCHANGED lastRead
    /\ UNCHANGED OutsideSessions

\* cur.execute or conn.commit raises: the transaction is dropped, the
\* exception ends the script run
StoreFails(s) ==
    /\ session[s].pc = "storing"
    /\ session' = [session EXCEPT ![s] = SessionIdle]
    /\ UNCHANGED <<stock_prices, lastWrite, lastRead>>
    /\ UNCHANGED OutsideSessions

\* get_cached_quotes() called while the sessions are where they are
ReadCachedQuotes ==
    /\ \E max_age \in MaxAges :
          lastRead' = ReadOf("get_cached_quotes",
                             get_cached_quotes(
                                 Visible(stock_prices, Uncommitted(Sessions)),
                                 now, max_age, TRUE))
    /\ UNCHANGED <<stock_prices, lastWrite, session>>
    /\ UNCHANGED OutsideSessions

\* get_volatile_stocks_from_db(0, ...) called while the sessions are where
\* they are; rows are its gainers followed by its losers
ReadVolatileMeanwhile ==
    /\ \E max_age \in MaxAges :
          LET value == get_volatile_stocks_from_db(
                           Visible(stock_prices, Uncommitted(Sessions)),
                           now, 0, max_age, TRUE)
          IN  lastRead' = ReadOf("get_volatile_stocks_from_db",
                                 value.gainers \o value.losers)
    /\ UNCHANGED <<stock_prices, lastWrite, session>>
    /\ UNCHANGED OutsideSessions

SessionsNext ==
    \/ \E s \in Sessions : ClickRefresh(s)
    \/ \E s \in Sessions : BatchFetched(s)
    \/ \E s \in Sessions : ExecuteUpsert(s)
    \/ \E s \in Sessions : CommitStore(s)
    \/ \E s \in Sessions : StoreFails(s)
    \/ ReadCachedQuotes
    \/ ReadVolatileMeanwhile

(***************************************************************************)
(* One call of a provider client: the quote clients of stock_prices.py,    *)
(* NewsAPIIntegration.fetch_news and                                       *)
(* EarningsAPIIntegration.fetch_earnings_calendar with their normalizers.  *)
(* A raw record is the state of its date field; a normalized record is the *)
(* position of its raw record and where its date came from.                *)
(***************************************************************************)
MaxRaw == 2

QuoteClients    == [kind : { "quote" }, provider : { "finnhub", "alpha_vantage" }]
NewsClients     == [kind : { "news" },
                    provider : { "alpha_vantage", "marketaux", "stock_news", "finnhub" }]
EarningsClients == [kind : { "earnings" }, provider : { "alpha_vantage", "fmp", "finnhub" }]
Clients         == QuoteClients \cup NewsClients \cup EarningsClients

\* "ok": a 200 with a payload of the expected shape; "rate_limit": HTTP 429;
\* "transport": requests.get raises (connection, timeout); "format": a 200
\* whose body is not JSON
Responses == { "ok", "rate_limit", "transport", "format" }

\* the date field of a raw record: a value of the expected form, the key
\* missing, a string the parser does not accept, or JSON null
DateFields == { "valid", "missing", "unparseable", "null" }

\* what the client does with a response that is not "ok"
OnError(c, r) ==
    CASE c.kind = "quote" -> "absent"
      [] c.kind = "news" /\ c.provider \in { "alpha_vantage", "stock_news" } -> "raised"
      [] c.kind = "news" /\ c.provider \in { "marketaux", "finnhub" } ->
            IF r = "rate_limit" THEN "absent" ELSE "raised"
      [] c.kind = "earnings" /\ c.provider = "alpha_vantage" ->
            IF r = "format" THEN "absent" ELSE "raised"
      [] OTHER -> "raised"

\* the date of one raw record in _normalize_news_data: "parsed", "now"
\* (datetime.now() put in its place), "skip" (KeyError/ValueError caught,
\* continue) or "raise" (an exception the except clause does not name:
\* strptime(None) and fromisoformat(None) raise TypeError, None.replace
\* AttributeError, fromtimestamp of a string TypeError)
NewsDate(provider, date) ==
    CASE provider = "alpha_vantage" ->
            (CASE date = "valid" -> "parsed"
               [] date = "null" -> "raise"
               [] OTHER -> "now")
      [] provider = "finnhub" ->
            (CASE date = "valid" -> "parsed"
               [] date = "unparseable" -> "raise"
               [] OTHER -> "now")
      [] OTHER ->
            (CASE date = "valid" -> "parsed"
               [] date = "null" -> "raise"
               [] OTHER -> "skip")

\* the same in _normalize_earnings_data: datetime.strptime(item.get(key, ''))
EarningsDate(provider, date) ==
    CASE date = "valid" -> "parsed"
      [] date = "null" -> "raise"
      [] OTHER -> "skip"

RecordDate(c, date) ==
    IF c.kind = "news" THEN NewsDate(c.provider, date)
    ELSE EarningsDate(c.provider, date)

Normalized(position, date) == [position |-> position, date |-> date]

ClientInit ==
    /\ client \in Clients
    /\ response \in Responses
    /\ raw_data \in IF client.kind = "quote" \/ response # "ok"
                    THEN { <<>> }
                    ELSE SeqsUpTo(DateFields, MaxRaw)
    /\ normPos = 0
    /\ normalized = <<>>
    /\ fetchResult = "running"

\* the request did not give a usable payload
ClientFails ==
    /\ fetchResult = "running"
    /\ response # "ok"
    /\ fetchResult' = OnError(client, response)
    /\ UNCHANGED <<client, response, raw_data, normPos, normalized>>
    /\ UNCHANGED OutsideClient

\* get_stock_quote_finnhub / get_stock_quote_alphavantage return their dict
QuoteReturned ==
    /\ fetchResult = "running"
    /\ response = "ok"
    /\ client.kind = "quote"
    /\ fetchResult' = "returned"
    /\ UNCHANGED <<client, response, raw_data, normPos, normalized>>
    /\ UNCHANGED OutsideClient

Normalizing ==
    /\ fetchResult = "running"
    /\ response = "ok"
    /\ client.kind # "quote"
    /\ normPos < Len(raw_data)

\* normalized.append(normalized_item)
NormalizeKeeps ==
    /\ Normalizing
    /\ RecordDate(client, raw_data[normPos + 1]) \in { "parsed", "now" }
    /\ normalized' = Append(normalized,
                            Normalized(normPos + 1,
                                       RecordDate(client, raw_data[normPos + 1])))
    /\ normPos' = normPos + 1
    /\ UNCHANGED <<client, response, raw_data, fetchResult>>
    /\ UNCHANGED OutsideClient

\* except (KeyError, ValueError): continue
NormalizeSkips ==
    /\ Normalizing
    /\ RecordDate(client, raw_data[normPos + 1]) = "skip"
    /\ normPos' = normPos + 1
    /\ UNCHANGED <<client, response, raw_data, normalized, fetchResult>>
    /\ UNCHANGED OutsideClient

\* a TypeError or AttributeError leaves the loop, the normalizer and the
\* client, which have no handler for it
NormalizeRaises ==
    /\ Normalizing
    /\ RecordDate(client, raw_data[normPos + 1]) = "raise"
    /\ fetchResult' = "raised"
    /\ UNCHANGED <<client, response, raw_data, normPos, normalized>>
    /\ UNCHANGED OutsideClient

\* return normalized
NormalizeReturns ==
    /\ fetchResult = "running"
    /\ response = "ok"
    /\ client.kind # "quote"
    /\ normPos = Len(raw_data)
    /\ fetchResult' = "returned"
    /\ UNCHANGED <<client, response, raw_data, normPos, normalized>>
    /\ UNCHANGED OutsideClient

ClientNext ==
    \/ ClientFails
    \/ QuoteReturned
    \/ NormalizeKeeps
    \/ NormalizeSkips
    \/ NormalizeRaises
    \/ NormalizeReturns

(***************************************************************************)
(* The parts a specification does not exercise stay in these states.       *)
(***************************************************************************)
ClientIdle ==
    /\ client = [kind |-> "quote", provider |-> "finnhub"]
    /\ response = "ok"
    /\ raw_data = <<>>
    /\ normPos = 0
    /\ normalized = <<>>
    /\ fetchResult = "returned"

SessIdle ==
    /\ session = [s \in Sessions |-> SessionIdle]
    /\ lastRead = NoRead

DbIdle ==
    /\ news_table = {}
    /\ next_id = 1
    /\ syncPc = "idle"
    /\ news_data = <<>>
    /\ count = 0
    /\ lastAdd = NoAdd
    /\ rowsBefore = 0

CacheIdle ==
    /\ stock_prices = {}
    /\ now = 0
    /\ lastWrite = [t \in Tickers |-> <<>>]
    /\ lastCall = NoCall

RunIdle ==
    /\ pc = "idle"
    /\ tickers = <<>>
    /\ chunk_size = 1
    /\ chunkStart = 0
    /\ pos = 0
    /\ quotes = <<>>
    /\ fetchLog = <<>>
    /\ failedPos = {}
    /\ sleeps = 0
    /\ chunkLog = <<>>

InitCache == NewsIdle /\ CacheInit /\ RunIdle /\ DbIdle /\ SessIdle /\ ClientIdle /\ AskIdle /\ LookupIdle /\ FeedIdle /\ AddersIdle

SpecCache == InitCache /\ [][CacheNext]_vars

InitRefresh == NewsIdle /\ CacheInit /\ RunIdle /\ DbIdle /\ SessIdle /\ ClientIdle /\ AskIdle /\ LookupIdle /\ FeedIdle /\ AddersIdle

SpecRefresh == InitRefresh /\ [][RefreshNext]_vars

(***************************************************************************)
(* A refresh run over a cache that earlier runs filled: a minute ago a row *)
(* was written for AAA (from Finnhub) and one for BBB (from Alpha          *)
(* Vantage); CCC has none.                                                 *)
(***************************************************************************)
CachedQuotes ==
    get_stock_quote_finnhub("AAA", [ok |-> TRUE, c |-> 3101, pc |-> 3000])
        \o get_stock_quote_alphavantage("BBB", CHOOSE r \in AlphaResponses : r.ok)

CachedBefore == UpsertAll({}, CachedQuotes, 0)

WarmCacheInit ==
    /\ stock_prices = CachedBefore
    /\ now = 1
    /\ lastWrite = RecordWrites([t \in Tickers |-> <<>>], CachedQuotes, 0)
    /\ lastCall = NoCall

InitRerun == NewsIdle /\ WarmCacheInit /\ RunIdle /\ DbIdle /\ SessIdle /\ ClientIdle /\ AskIdle /\ LookupIdle /\ FeedIdle /\ AddersIdle

SpecRerun == InitRerun /\ [][RefreshNext]_vars

InitNews == NewsInit /\ CacheIdle /\ RunIdle /\ DbIdle /\ SessIdle /\ ClientIdle /\ AskIdle /\ LookupIdle /\ FeedIdle /\ AddersIdle

SpecNews == InitNews /\ [][NewsNext]_vars

InitDb == NewsIdle /\ CacheIdle /\ RunIdle /\ DbInit /\ SessIdle /\ ClientIdle /\ AskIdle /\ LookupIdle /\ FeedIdle /\ AddersIdle

SpecDb == InitDb /\ [][DbNext]_vars

InitSessions == NewsIdle /\ CacheInit /\ RunIdle /\ DbIdle /\ SessInit /\ ClientIdle /\ AskIdle /\ LookupIdle /\ FeedIdle /\ AddersIdle

SpecSessions == InitSessions /\ [][SessionsNext]_vars

InitClient == NewsIdle /\ CacheIdle /\ RunIdle /\ DbIdle /\ SessIdle /\ ClientInit /\ AskIdle /\ LookupIdle /\ FeedIdle /\ AddersIdle

SpecClient == InitClient /\ [][ClientNext]_vars

InitAsk == NewsIdle /\ CacheIdle /\ RunIdle /\ DbIdle /\ SessIdle /\ ClientIdle /\ AskInit /\ LookupIdle /\ FeedIdle /\ AddersIdle

SpecAsk == InitAsk /\ [][AskNext]_vars

InitLookup == NewsIdle /\ CacheIdle /\ RunIdle /\ DbIdle /\ SessIdle /\ ClientIdle /\ AskIdle /\ LookupInit /\ FeedIdle /\ AddersIdle

SpecLookup == InitLookup /\ [][LookupNext]_vars

InitFeed == NewsIdle /\ CacheIdle /\ RunIdle /\ DbIdle /\ SessIdle /\ ClientIdle /\ AskIdle /\ LookupIdle /\ FeedInit /\ AddersIdle

SpecFeed == InitFeed /\ [][DeduplicateNews]_vars

InitAdders == NewsIdle /\ CacheIdle /\ RunIdle /\ AddersInit /\ SessIdle /\ ClientIdle /\ AskIdle /\ LookupIdle /\ FeedIdle

SpecAdders == InitAdders /\ [][AddersNext]_vars

(***************************************************************************)
(* The deduplication of fetch_multi_provider_news on its own: the loop     *)
(* over the providers is over and all_news holds what they returned.       *)
(***************************************************************************)
MaxFetched == 3

FetchedArticles ==
    [url : { <<>>, <<"u">>, <<"v">> }, headline : { <<"h">>, <<"g">> },
     date : { [wall |-> 1, tz |-> "none"] }]

DedupInit ==
    /\ limit = MaxFetched
    /\ pidx = Len(Providers) + 1
    /\ provStatus = [p \in DOMAIN Providers |-> "fetched"]
    /\ all_news \in SeqsUpTo(FetchedArticles, MaxFetched)
    /\ received = [p \in DOMAIN Providers |-> IF p = 1 THEN all_news ELSE <<>>]
    /\ queried = DOMAIN Providers
    /\ deduplicated = <<>>
    /\ newsResult = Running(<<>>)

InitDedup == DedupInit /\ CacheIdle /\ RunIdle /\ DbIdle /\ SessIdle /\ ClientIdle /\ AskIdle /\ LookupIdle /\ FeedIdle /\ AddersIdle

SpecDedup == InitDedup /\ [][Aggregate]_vars

(***************************************************************************)
(* Claims about the aggregator (checked under SpecNews).                   *)
(***************************************************************************)
NewsReturned == newsResult.status = "returned"
Output       == newsResult.items

\* the canonical form the specification compares URLs in
CanonicalUrl(u) == strip(lower(u))
NormalizedHeadline(h) == strip(lower(h))

\* C1: the output holds at most one article per non-empty URL, the URLs being
\* compared case-insensitively and trimmed, whatever the headlines are.
C1_OneArticlePerCanonicalUrl ==
    NewsReturned =>
        \A a, b \in DOMAIN Output :
            (a < b /\ CanonicalUrl(Output[a].url) # <<>>)
                => CanonicalUrl(Output[a].url) # CanonicalUrl(Output[b].url)

\* C2 as stated: no two articles of the output have equal normalized
\* headlines, whatever that value is (the empty headline included).
C2_OneArticlePerHeadlineAnyValue ==
    NewsReturned =>
        \A a, b \in DOMAIN Output :
            a < b => NormalizedHeadline(Output[a].headline)
                        # NormalizedHeadline(Output[b].headline)

\* C2 amended: no two articles of the deduplicated list, hence of the output,
\* have the same NON-EMPTY normalized headline.
C2_OneArticlePerNonEmptyHeadline ==
    NewsReturned =>
        /\ \A a, b \in DOMAIN deduplicated :
              (a < b /\ NormalizedHeadline(deduplicated[a].headline) # <<>>)
                  => NormalizedHeadline(deduplicated[a].headline)
                        # NormalizedHeadline(deduplicated[b].headline)
        /\ \A a, b \in DOMAIN Output :
              (a < b /\ NormalizedHeadline(Output[a].headline) # <<>>)
                  => NormalizedHeadline(Output[a].headline)
                        # NormalizedHeadline(Output[b].headline)

\* two fetched articles whose headlines differ as written but are equal and
\* non-empty once normalized, of which the aggregator returned one
C2_Witness ==
    /\ NewsReturned
    /\ limit >= 2
    /\ \E a, b \in DOMAIN all_news :
          /\ a < b
          /\ all_news[a].headline # all_news[b].headline
          /\ all_news[a].url # all_news[b].url
          /\ NormalizedHeadline(all_news[a].headline) # <<>>
          /\ NormalizedHeadline(all_news[a].headline)
                = NormalizedHeadline(all_news[b].headline)
    /\ Len(Output) = 1

\* C3: the returned list is sorted by timestamp, newest first; every
\* timestamp in it is timezone-naive; it has at most limit items; no article
\* cut off by the limit is newer than an article that was kept; the sort never
\* raises on a mix of aware and naive timestamps.
C3_SortedNaiveTruncated ==
    /\ newsResult.status # "raised"
    /\ NewsReturned =>
        /\ \A a, b \in DOMAIN Output :
              a < b => Output[a].date.wall >= Output[b].date.wall
        /\ \A a \in DOMAIN Output : Output[a].date.tz = "none"
        /\ Len(Output) <= limit
        /\ Len(Output) <= Len(deduplicated)
        /\ \A a \in DOMAIN Output : Output[a] = deduplicated[a]
        /\ \A c \in DOMAIN deduplicated, a \in DOMAIN Output :
              c > Len(Output) => deduplicated[c].date.wall <= Output[a].date.wall

\* an aware and a naive article were fetched, the older one first, and the
\* limit cut the older one off
C3_Witness ==
    /\ NewsReturned
    /\ Len(all_news) = 2
    /\ all_news[1].date.tz = "none"
    /\ all_news[2].date.tz = "utc"
    /\ all_news[1].date.wall < all_news[2].date.wall
    /\ Len(deduplicated) = 2
    /\ Len(Output) = 1
    /\ Output[1].date = [wall |-> all_news[2].date.wall, tz |-> "none"]

(***************************************************************************)
(* Claims about the cache and its readers (checked under SpecCache).       *)
(***************************************************************************)
Listed(value) ==
    { value.gainers[k] : k \in DOMAIN value.gainers }
        \cup { value.losers[k] : k \in DOMAIN value.losers }

IsRead == lastCall.op \in { "get_volatile_stocks_from_db",
                            "get_cached_volatility_data", "get_volatile_stocks" }

\* C4: a read never lists the same ticker among the gainers and among the
\* losers, and every listed quote moved by at least the threshold.
C4_DisjointAndAboveThreshold ==
    IsRead =>
        /\ \A g \in DOMAIN lastCall.value.gainers, l \in DOMAIN lastCall.value.losers :
              lastCall.value.gainers[g].ticker # lastCall.value.losers[l].ticker
        /\ \A q \in Listed(lastCall.value) :
              Abs(q.change_percent) >= lastCall.threshold

\* a read of the cache at threshold 0 that lists gainers and losers, one of
\* the gainers with no change at all
C4_Witness ==
    /\ lastCall.op = "get_volatile_stocks_from_db"
    /\ lastCall.threshold = 0
    /\ lastCall.value.losers # <<>>
    /\ \E g \in DOMAIN lastCall.value.gainers :
          lastCall.value.gainers[g].change_percent = 0

\* rows the read at hand must leave out
FreshRows == { r \in stock_prices : r.updated_at > lastCall.at - lastCall.max_age }

RowsOf(t) == { r \in stock_prices : r.ticker = t }

Written(t) == lastWrite[t] # <<>>

\* y is x rounded to two decimals
Rounded2(x, y) == y % 10 = 0 /\ Abs(x - y) <= 5

\* C7 as stated: one row per ticker ever stored, every field of it equal to
\* the field of the most recent write.
C7_OneRowEqualToLastWrite ==
    \A t \in Tickers :
        /\ Cardinality(RowsOf(t)) = (IF Written(t) THEN 1 ELSE 0)
        /\ \A r \in RowsOf(t) :
              /\ r.price = lastWrite[t][1].quote.price
              /\ r.change = lastWrite[t][1].quote.change
              /\ r.change_percent = lastWrite[t][1].quote.change_percent
              /\ r.volume = lastWrite[t][1].quote.volume
              /\ r.previous_close = lastWrite[t][1].quote.previous_close
              /\ r.source = lastWrite[t][1].quote.source
              /\ r.updated_at = lastWrite[t][1].at

\* C7 amended: one row per ticker ever stored; its volume, source and
\* updated_at are those of the most recent write, its price, change,
\* change_percent and previous_close those of the most recent write rounded
\* to two decimals.
C7_OneRowLastWriteRounded ==
    \A t \in Tickers :
        /\ Cardinality(RowsOf(t)) = (IF Written(t) THEN 1 ELSE 0)
        /\ \A r \in RowsOf(t) :
              /\ Rounded2(lastWrite[t][1].quote.price, r.price)
              /\ Rounded2(lastWrite[t][1].quote.change, r.change)
              /\ Rounded2(lastWrite[t][1].quote.change_percent, r.change_percent)
              /\ r.volume = lastWrite[t][1].quote.volume
              /\ Rounded2(lastWrite[t][1].quote.previous_close, r.previous_close)
              /\ r.source = lastWrite[t][1].quote.source
              /\ r.updated_at = lastWrite[t][1].at

\* one call stored the same ticker twice, a ticker that already had a row from
\* an earlier call, and the two quotes of the call differ
C7_Witness ==
    /\ lastCall.op = "store_quotes"
    /\ lastCall.status = "committed"
    /\ lastCall.info = [quotes |-> 2, distinct |-> 1, replaced |-> 1]
    /\ now > 0
    /\ \E r \in stock_prices :
          /\ Written(r.ticker)
          /\ r.updated_at = now
          /\ r.source = "Alpha Vantage"

(***************************************************************************)
(* Claims about the refresh run (checked under SpecRefresh).               *)
(***************************************************************************)
RunOver == pc \in { "done", "aborted" }

Positions == 1..Len(tickers)

\* the tickers looked up, in the order of the lookups
FetchedTickers == [k \in DOMAIN fetchLog |-> tickers[fetchLog[k]]]

\* ceil(N / chunk_size), computed apart from the code's formula
CeilDiv(n, c) == CHOOSE k \in 0..n : k * c >= n /\ (k = 0 \/ (k - 1) * c < n)

\* C6: a run over N tickers processes exactly ceil(N / chunk_size) chunks; the
\* lookups follow the input order; every input position is looked up exactly
\* once, none skipped and none twice.
C6_EveryPositionFetchedOnceInOrder ==
    RunOver =>
        /\ Len(chunkLog) = CeilDiv(Len(tickers), chunk_size)
        /\ fetchLog = [k \in Positions |-> k]
        /\ FetchedTickers = tickers
        /\ \A k \in DOMAIN chunkLog : chunkLog[k].start = (k - 1) * chunk_size

C9_FailedLookupDoesNotStopTheRun ==
    (RunOver /\ failedPos # {}) =>
        /\ \A k \in DOMAIN chunkLog :
              \A q \in DOMAIN chunkLog[k].quotes, p \in failedPos :
                  chunkLog[k].quotes[q].ticker # tickers[p]
        /\ \A p \in failedPos :
              Cardinality({ k \in DOMAIN fetchLog : fetchLog[k] = p }) = 1
        /\ fetchLog = [k \in Positions |-> k]
        /\ Len(chunkLog) = CeilDiv(Len(tickers), chunk_size)
        /\ \A k \in DOMAIN chunkLog :
              chunkLog[k].quotes # <<>> => chunkLog[k].store_calls = 1

WriteFailed(k) == chunkLog[k].outcome \in { "raised", "no connection" }

\* C10: when the write of chunk k fails, the rows committed for the chunks
\* before k stay as written and the chunks after k are still fetched and
\* written by the same run.
C10_WriteFailureLosesOnlyItsChunk ==
    (RunOver /\ \E k \in DOMAIN chunkLog : WriteFailed(k)) =>
        /\ \A k \in DOMAIN chunkLog :
              chunkLog[k].outcome = "committed"
                  => \A q \in DOMAIN chunkLog[k].quotes :
                        RowOf(chunkLog[k].quotes[q], chunkLog[k].at) \in stock_prices
        /\ Len(chunkLog) = CeilDiv(Len(tickers), chunk_size)
        /\ fetchLog = [k \in Positions |-> k]

\* the chunk (1-based) an input position belongs to
ChunkOfPosition(p) == ChunkNum(p - 1, chunk_size)

\* the store step of every chunk before the one position p is in is over
EarlierChunksStored(p) == ChunkOfPosition(p) <= Len(chunkLog) + 1

InCache(quote, at) ==
    \E r \in stock_prices : r.ticker = quote.ticker /\ r.updated_at = at

\* C11 as stated: in every state of a run (the process may be terminated in
\* any of them) the store step of chunk k came before the first request of
\* chunk k+1, and the cache holds the quotes of every chunk whose store step
\* has completed.
C11_EveryStoredChunkInCache ==
    /\ \A j \in DOMAIN fetchLog : EarlierChunksStored(fetchLog[j])
    /\ \A k \in DOMAIN chunkLog :
          chunkLog[k].outcome \in { "committed", "no connection" }
              => \A q \in DOMAIN chunkLog[k].quotes :
                    InCache(chunkLog[k].quotes[q], chunkLog[k].at)

\* C11 amended: in every state of a run the store_quotes call of chunk k has
\* returned before the first request of chunk k+1, and the cache holds the
\* quotes, as the columns store them, of every chunk whose store_quotes call
\* committed; a call that found no database connection has written nothing.
C11_EveryCommittedChunkInCache ==
    /\ \A j \in DOMAIN fetchLog : EarlierChunksStored(fetchLog[j])
    /\ \A k \in DOMAIN chunkLog :
          /\ chunkLog[k].outcome = "committed"
                => \A q \in DOMAIN chunkLog[k].quotes :
                      RowOf(chunkLog[k].quotes[q], chunkLog[k].at) \in stock_prices
          /\ chunkLog[k].outcome = "no connection"
                => \A q \in DOMAIN chunkLog[k].quotes :
                      ~InCache(chunkLog[k].quotes[q], chunkLog[k].at)

\* the run is in the middle of its second chunk, one request of it issued;
\* the two quotes of the first chunk are in the cache
C11_Witness ==
    /\ pc = "fetch"
    /\ chunkStart = chunk_size
    /\ pos = 1
    /\ Len(chunkLog) = 1
    /\ chunkLog[1].outcome = "committed"
    /\ Len(chunkLog[1].quotes) = 2
    /\ Cardinality(stock_prices) = 2

(***************************************************************************)
(* More claims about the aggregator (checked under SpecNews).              *)
(***************************************************************************)
\* the articles of the providers that answered, in provider order
RECURSIVE ReceivedFrom(_)
ReceivedFrom(p) ==
    IF p > Len(Providers) THEN <<>> ELSE received[p] \o ReceivedFrom(p + 1)

\* article a is in the list, or the list holds the article it duplicates
KeptOrDuplicate(a, list) ==
    \E d \in DOMAIN list :
        \/ list[d] = [a EXCEPT !.date = [wall |-> a.date.wall, tz |-> "none"]]
        \/ a.url # <<>> /\ list[d].url = a.url
        \/ /\ NormalizedHeadline(a.headline) # <<>>
           /\ NormalizedHeadline(list[d].headline) = NormalizedHeadline(a.headline)

\* C12: the call never raises; a provider without credential is skipped
\* without being queried, a provider whose fetch raises is skipped, and the
\* articles of the providers that answered are all merged: each is in the
\* deduplicated list or is the duplicate of one that is, and the call returns
\* the newest limit of that list.
C12_UnavailableProviderSkipped ==
    /\ newsResult.status # "raised"
    /\ \A p \in DOMAIN Providers :
          /\ provStatus[p] = "skipped" => p \notin queried
          /\ provStatus[p] \in { "skipped", "failed", "pending" } => received[p] = <<>>
    /\ all_news = ReceivedFrom(1)
    /\ NewsReturned =>
          /\ \A p \in DOMAIN Providers : provStatus[p] # "pending"
          /\ \A p \in DOMAIN Providers :
                \A a \in DOMAIN received[p] :
                    KeptOrDuplicate(received[p][a], deduplicated)
          /\ \A d \in DOMAIN deduplicated :
                \E a \in DOMAIN all_news : KeptOrDuplicate(all_news[a], << deduplicated[d] >>)
          /\ Output = Truncate(deduplicated, limit)

\* the first provider had no credential, the second raised, the third gave
\* two different articles, and both were returned
C12_Witness ==
    /\ NewsReturned
    /\ provStatus = <<"skipped", "failed", "fetched">>
    /\ queried = { 2, 3 }
    /\ Len(received[3]) = 2
    /\ Len(Output) = 2
    /\ Output[1].url # Output[2].url

(***************************************************************************)
(* More claims about the cache readers (checked under SpecCache).          *)
(***************************************************************************)
IsDbRead == lastCall.op = "get_volatile_stocks_from_db"

\* the read opened its database connection
ReadConnected == lastCall.value.cache_age.label # "No DB configured"

\* how many times row r is listed by the read
TimesListed(r) ==
    Cardinality({ k \in DOMAIN lastCall.value.gainers : lastCall.value.gainers[k] = r })
        + Cardinality({ k \in DOMAIN lastCall.value.losers : lastCall.value.losers[k] = r })

NonIncreasing(list) ==
    \A a, b \in DOMAIN list : a < b => list[a].change_percent >= list[b].change_percent

NonDecreasing(list) ==
    \A a, b \in DOMAIN list : a < b => list[a].change_percent <= list[b].change_percent

\* what C13 says of the lists of a read
CompleteFreshOrdered ==
    /\ \A r \in FreshRows :
          Abs(r.change_percent) >= lastCall.threshold => TimesListed(r) = 1
    /\ \A r \in stock_prices \ FreshRows : TimesListed(r) = 0
    /\ NonIncreasing(lastCall.value.gainers)
    /\ NonDecreasing(lastCall.value.losers)

\* C13 as stated: whatever the cache holds, get_volatile_stocks_from_db lists
\* every fresh row that moved by the threshold or more exactly once, lists no
\* row older than max_age, and orders the gainers from the largest change down
\* and the losers from the most negative change up.
C13_EveryFreshMoverListedAnyRead ==
    IsDbRead => CompleteFreshOrdered

\* C13 amended: the same, for a read that could open its database connection;
\* a read that could not returns two empty lists.
C13_EveryFreshMoverListedWhenConnected ==
    IsDbRead =>
        /\ ReadConnected => CompleteFreshOrdered
        /\ ~ReadConnected => Listed(lastCall.value) = {}

\* a connected read at threshold 0 over three rows: the oldest is stale and
\* left out, the two others are gainers and the sort put the later ticker,
\* whose change is larger, first
C13_Witness ==
    /\ IsDbRead
    /\ ReadConnected
    /\ lastCall.threshold = 0
    /\ Cardinality(stock_prices) = 3
    /\ Cardinality(FreshRows) = 2
    /\ Len(lastCall.value.gainers) = 2
    /\ lastCall.value.gainers[1].ticker = "CCC"
    /\ lastCall.value.gainers[2].ticker = "BBB"
    /\ lastCall.value.gainers[1].change_percent > lastCall.value.gainers[2].change_percent

(***************************************************************************)
(* Claims about the news table (checked under SpecDb).                     *)
(***************************************************************************)
AddReturned == lastAdd.status = "returned"

UrlWasPresent == lastAdd.item.url # <<>> /\ \E r \in lastAdd.before : r.url = lastAdd.item.url

\* C14: whatever calls were made one after the other, the news table holds
\* at most one row per non-empty url, and a call whose url was already there
\* inserted nothing, left every row as it was and returned the id of the row
\* with that url.
C14_OneRowPerUrlExistingIdReturned ==
    /\ \A r1, r2 \in news_table :
          (r1.url # <<>> /\ r1.url = r2.url) => r1 = r2
    /\ (AddReturned /\ UrlWasPresent) =>
          /\ ~lastAdd.inserted
          /\ news_table = lastAdd.before
          /\ \E r \in lastAdd.before :
                r.url = lastAdd.item.url /\ r.id = lastAdd.id

\* an item came with the url of a row of another headline: the call returned
\* that row's id and the table kept its two rows
C14_Witness ==
    /\ AddReturned
    /\ UrlWasPresent
    /\ Cardinality(news_table) = 2
    /\ \E r \in news_table :
          /\ r.id = lastAdd.id
          /\ r.url = lastAdd.item.url
          /\ r.headline # lastAdd.item.headline

(***************************************************************************)
(* Claims about concurrent sessions (checked under SpecSessions).          *)
(***************************************************************************)
Refreshing == { s \in Sessions : session[s].pc # "idle" }

\* C15: at most one refresh_all_tickers run is in progress at any time; a
\* Refresh pressed while a run is in progress starts no second writer.
C15_AtMostOneRefreshInProgress ==
    Cardinality(Refreshing) <= 1

CallOver == fetchResult # "running"

\* the positions of the well-formed raw records, in input order
RECURSIVE WellFormedFrom(_)
WellFormedFrom(k) ==
    IF k > Len(raw_data) THEN <<>>
    ELSE (IF raw_data[k] = "valid" THEN << Normalized(k, "parsed") >> ELSE <<>>)
            \o WellFormedFrom(k + 1)

\* C17: the normalizer of a batch never raises; its output is the
\* well-formed records of the batch, in input order, and no malformed one.
C17_MalformedSkippedOthersKept ==
    (CallOver /\ client.kind # "quote" /\ response = "ok") =>
        /\ fetchResult = "returned"
        /\ normalized = WellFormedFrom(1)

\* C18: a rate limit, a transport error or a format error never leaves a
\* provider client as an exception; the call ends with its records absent.
C18_ErrorsBecomeAbsentRecords ==
    (CallOver /\ response # "ok") => fetchResult = "absent"

(***************************************************************************)
(* Claims about the life of a cache row (checked under SpecCache).         *)
(***************************************************************************)
HasRow(t) == \E r \in stock_prices : r.ticker = t

CommittedStore(call) == call.op = "store_quotes" /\ call.status = "committed"

\* C19: no step deletes a cache row: a ticker that has a row has one after
\* every step; the rows change only by a store_quotes call that commits, which
\* stamps the rows it writes with the current time; reads and the passing of
\* time leave every row as it is, so a row is stale only in the eyes of a
\* read.
C19_RowsNeverDeleted ==
    [][ /\ \A t \in Tickers : HasRow(t) => HasRow(t)'
        /\ stock_prices' # stock_prices =>
              /\ CommittedStore(lastCall')
              /\ \A r \in stock_prices' \ stock_prices : r.updated_at = now
        /\ now' # now => stock_prices' = stock_prices
      ]_vars

\* a minute after two rows were written one of them was overwritten by a new
\* upsert; the other, now a minute old, is still there
C19_Witness ==
    /\ CommittedStore(lastCall)
    /\ lastCall.info = [quotes |-> 1, distinct |-> 1, replaced |-> 1]
    /\ now = 1
    /\ Cardinality(stock_prices) = 2
    /\ \E r \in stock_prices : r.updated_at = now
    /\ \E r \in stock_prices : r.updated_at = 0

\* a returned quote carrying a mark that tells it is stale
FlaggedStale(q) == "stale" \in DOMAIN q /\ q.stale

\* C20: a row older than max_age can still be read, and the read that
\* returns it marks it as stale: every row of the cache that moved by the
\* threshold is in the lists of a read, the rows older than max_age with a
\* stale mark.
C20_StaleRowReadableAndFlagged ==
    (IsDbRead /\ ReadConnected) =>
        \A r \in stock_prices \ FreshRows :
            Abs(r.change_percent) >= lastCall.threshold
                => \E q \in Listed(lastCall.value) :
                      q.ticker = r.ticker /\ FlaggedStale(q)

(***************************************************************************)
(* Claims about the deduplication (checked under SpecDedup).               *)
(***************************************************************************)
\* the first position of all_news that satisfies P, 0 when there is none
FirstWithUrl(u) ==
    IF \E k \in DOMAIN all_news : all_news[k].url = u
    THEN CHOOSE k \in DOMAIN all_news :
            /\ all_news[k].url = u
            /\ \A j \in 1..(k - 1) : all_news[j].url # u
    ELSE 0

FirstWithHeadline(h) ==
    IF \E k \in DOMAIN all_news : NormalizedHeadline(all_news[k].headline) = h
    THEN CHOOSE k \in DOMAIN all_news :
            /\ NormalizedHeadline(all_news[k].headline) = h
            /\ \A j \in 1..(k - 1) : NormalizedHeadline(all_news[j].headline) # h
    ELSE 0

\* C21: every article of the deduplicated list is the earliest fetched
\* article with its url (when it has one) and the earliest fetched article
\* with its normalized headline, earliest in the order of all_news.
C21_FirstOccurrenceWins ==
    NewsReturned =>
        \A d \in DOMAIN deduplicated :
            /\ deduplicated[d].url # <<>>
                  => all_news[FirstWithUrl(deduplicated[d].url)] = deduplicated[d]
            /\ all_news[FirstWithHeadline(NormalizedHeadline(deduplicated[d].headline))]
                  = deduplicated[d]

(***************************************************************************)
(* Claims about the credentials and the requested counts (SpecAsk).        *)
(***************************************************************************)
AskOver == askResult.status # "running"

\* C22: a call whose provider list holds exactly one provider, whose key is
\* not set, ends with an error; it does not return.
C22_SoleProviderWithoutKeyRaises ==
    (AskOver /\ Len(providers) = 1 /\ providers[1] \notin environ)
        => askResult.status = "raised"

\* C28 as stated: every fetch_news call asks for limit // provider_count
\* articles, and only providers whose key is set are called.
C28_AsksExactShare ==
    \A r \in DOMAIN requests :
        /\ requests[r].limit = articles_per_provider
        /\ requests[r].provider \in environ

\* C28 (amended): every fetch_news call asks for limit // provider_count
\* plus ten articles, and only providers whose key is set are called.
C28_AsksShareAndExtra ==
    \A r \in DOMAIN requests :
        /\ requests[r].limit = (askLimit \div Len(providers)) + 10
        /\ requests[r].provider \in environ

C28_Witness ==
    /\ AskOver
    /\ Len(providers) = 3
    /\ askLimit = MaxAskLimit
    /\ Len(requests) = 2

(***************************************************************************)
(* Claims about the quote clients (checked under SpecLookup).              *)
(***************************************************************************)
\* C23: once a provider has refused a request for its key, no later request
\* of the run goes to that provider.
C23_NoRequestAfterRefusedKey ==
    \A a, b \in DOMAIN httpLog :
        (a < b /\ httpLog[a].status = "unauthorized")
            => httpLog[b].provider # httpLog[a].provider

Sign(x) == IF x > 0 THEN 1 ELSE IF x < 0 THEN -1 ELSE 0

SignConsistent(q) ==
    q.change_percent = 0
        \/ Sign(q.change_percent) = Sign(q.price - q.previous_close)

\* C24: the quote a client produced, and every row of the cache, has a
\* change_percent that is zero or of the sign of price - previous_close.
C24_PercentSignMatchesChange ==
    /\ \A k \in DOMAIN lastQuote : SignConsistent(lastQuote[k])
    /\ \A r \in stock_prices : SignConsistent(r)

(***************************************************************************)
(* Claims about the unified feed (checked under SpecFeed).                 *)
(***************************************************************************)
FeedReturned == feedPc = "returned"

\* C25 as stated: no two items of the unified feed have the same normalized
\* headline (whatever it is), and no two have the same non-empty normalized
\* url or permalink.
C25_NoSharedHeadlineOrUrl ==
    FeedReturned =>
        \A a, b \in DOMAIN unified :
            a < b =>
                /\ NormalizedHeadline(unified[a].headline)
                      # NormalizedHeadline(unified[b].headline)
                /\ CanonicalUrl(unified[a].url) # <<>>
                      => CanonicalUrl(unified[a].url) # CanonicalUrl(unified[b].url)

\* C25 (amended): no two items of the unified feed have the same NON-EMPTY
\* normalized headline, no two have the same non-empty normalized url or
\* permalink, and of two items with an empty headline the later one is a
\* social post.
C25_NoSharedNonEmptyHeadlineOrUrl ==
    FeedReturned =>
        \A a, b \in DOMAIN unified :
            a < b =>
                /\ NormalizedHeadline(unified[a].headline)
                      = NormalizedHeadline(unified[b].headline)
                      => /\ NormalizedHeadline(unified[a].headline) = <<>>
                         /\ unified[b].source_type = "social_media"
                /\ CanonicalUrl(unified[a].url) # <<>>
                      => CanonicalUrl(unified[a].url) # CanonicalUrl(unified[b].url)

\* a wire article and two posts: the first post repeats the article's
\* headline in another spelling, the second its url; only the article is kept
C25_Witness ==
    /\ FeedReturned
    /\ Len(feedNews) = 1 /\ Len(feedSocial) = 2
    /\ feedNews[1] = [url |-> <<"u">>, headline |-> <<"h">>]
    /\ feedSocial[1] = [permalink |-> <<>>, headline |-> <<"H", " ">>]
    /\ feedSocial[2] = [permalink |-> <<"U", " ">>, headline |-> <<>>]
    /\ Len(unified) = 1

\* C26: the count sync_to_database returns is the number of rows the call
\* added to the news table.
C26_CountIsRowsAdded ==
    syncPc = "idle" => count = Cardinality(news_table) - rowsBefore

(***************************************************************************)
(* Claims about the pacing and the frame of a refresh run.                 *)
(***************************************************************************)
\* the lookups made for the chunk with number c (1-based)
LookupsOfChunk(c) ==
    { a \in DOMAIN fetchLog : ChunkOfPosition(fetchLog[a]) = c }

\* C27: in a run over k >= 1 chunks, no lookup of chunk c is made before
\* c - 1 sleeps are over, at most chunk_size lookups are made for a chunk
\* (hence between two sleeps), and a run that is over has slept k - 1
\* times, once between consecutive chunks and not after the last one.
C27_OneSleepBetweenChunks ==
    /\ \A a \in DOMAIN fetchLog : ChunkOfPosition(fetchLog[a]) <= sleeps + 1
    /\ \A c \in 1..(sleeps + 1) : Cardinality(LookupsOfChunk(c)) <= chunk_size
    /\ chunkLog = <<>> => sleeps = 0
    /\ chunkLog # <<>> => sleeps \in { Len(chunkLog) - 1, Len(chunkLog) }
    /\ (RunOver /\ tickers # <<>>)
          => sleeps = TotalChunks(tickers, chunk_size) - 1

\* the quotes the run has fetched so far for ticker t, with the time of the
\* store step of their chunk
FetchedFor(t) ==
    UNION { { [quote |-> chunkLog[k].quotes[q], at |-> chunkLog[k].at] :
                q \in { x \in DOMAIN chunkLog[k].quotes :
                          chunkLog[k].quotes[x].ticker = t } } :
            k \in DOMAIN chunkLog }

RowsBefore(t) == { r \in CachedBefore : r.ticker = t }

\* C29: during and after a refresh run over a filled cache, the row of a
\* ticker is either exactly the row it had before the run, or the row of a
\* quote this run fetched for that ticker; a ticker that had a row has one;
\* a ticker for which the run fetched no quote has its row as before.
C29_OnlyFetchedTickersChange ==
    \A t \in Tickers :
        /\ RowsBefore(t) # {} => RowsOf(t) # {}
        /\ \A r \in RowsOf(t) :
              \/ r \in CachedBefore
              \/ \E f \in FetchedFor(t) : r = RowOf(f.quote, f.at)
        /\ FetchedFor(t) = {}
              => RowsOf(t) = RowsBefore(t)

\* the run over <<AAA, CCC>> is over: the lookup of AAA failed, CCC got a
\* row, and the rows of AAA and BBB are the ones of before
C29_Witness ==
    /\ pc = "done"
    /\ tickers = <<"AAA", "CCC">>
    /\ failedPos = { 1 }
    /\ RowsOf("CCC") # {}
    /\ RowsOf("AAA") = RowsBefore("AAA")
    /\ RowsOf("BBB") = RowsBefore("BBB")
    /\ Cardinality(stock_prices) = 3

(***************************************************************************)
(* Claims about concurrent add_news_item calls (checked under SpecAdders). *)
(***************************************************************************)
\* C30: whenever two add_news_item calls with the same non-empty url have
\* both returned, however their steps interleaved, the news table holds
\* exactly one row with that url.
C30_OneRowPerUrlAnyInterleaving ==
    \A a, b \in Adders :
        (/\ a # b
         /\ adder[a].pc = "returned" /\ adder[b].pc = "returned"
         /\ adder[a].item.url # <<>>
         /\ adder[a].item.url = adder[b].item.url)
            => Cardinality({ r \in news_table : r.url = adder[a].item.url }) = 1

====
